---- MODULE Spec2Model ----
(***************************************************************************)
(* Model of thrilled-vibe-starter: the template registry of index.js       *)
(* (TEMPLATE_STRUCTURE, generatePRD, getAvailableCategories,               *)
(* getAvailableTemplates, getTemplateInfo) and the version suggestion      *)
(* engine of scripts/version-manager.js (categorizeCommits,                *)
(* suggestNextVersion).                                                    *)
(*                                                                         *)
(* JavaScript values are modelled as follows.                              *)
(*  - A string that is only compared or copied is a TLA+ string.           *)
(*  - A string that is searched (includes, startsWith, toLowerCase) is a   *)
(*    sequence of one-character strings.                                   *)
(*  - A path is [abs, segs]: whether it starts with "/" and its segments.  *)
(*  - An object literal is the sequence of its own properties in insertion *)
(*    order, so that Object.keys is the sequence of the keys.  obj[key]    *)
(*    also finds the properties every object inherits from                 *)
(*    Object.prototype.                                                    *)
(***************************************************************************)
EXTENDS Integers, Sequences, FiniteSets, TLC

VARIABLES
    registry,   \* the module constant TEMPLATE_STRUCTURE (a mutable object)
    fsFiles,    \* files on disk: absolute path -> [exists, content]
    fsDirs,     \* directories on disk: set of absolute paths
    result,     \* the last registry call: operation, arguments, outcome
    commits,    \* version manager: commits since the last tag (parsed)
    categories, \* version manager: buckets of the last categorizeCommits
    suggestion, \* version manager: outcome of the last suggestNextVersion
    currentVersion, \* version manager: this.currentVersion
    call,       \* the last call of a manager method: operation, arguments, outcome
    git,        \* the repository of the checkout: availability, release commits, tags
    proc        \* the running script: command, position, inputs, output, exit code

registryVars == <<registry, fsFiles, fsDirs, result>>
versionVars == <<commits, categories, suggestion, currentVersion>>
cliVars == <<git, proc>>
releaseVars == <<call, git, proc>>
vars == <<registry, fsFiles, fsDirs, result,
         commits, categories, suggestion, currentVersion, call, git, proc>>

Range(s) == {s[i] : i \in DOMAIN s}

(***************************************************************************)
(* Paths (node's path module, POSIX flavour).                              *)
(***************************************************************************)
Abs(segs) == [abs |-> TRUE, segs |-> segs]
Rel(segs) == [abs |-> FALSE, segs |-> segs]

\* path.normalize on segments: "." is dropped, ".." removes the segment
\* before it (and is kept at the start of a relative path, dropped at "/").
RECURSIVE NormalizeSegs(_, _, _)
NormalizeSegs(abs, done, todo) ==
    IF todo = <<>> THEN done
    ELSE LET s == Head(todo) IN
         IF s = "." \/ s = ""
         THEN NormalizeSegs(abs, done, Tail(todo))
         ELSE IF s = ".."
         THEN IF done # <<>> /\ done[Len(done)] # ".."
              THEN NormalizeSegs(abs, SubSeq(done, 1, Len(done) - 1), Tail(todo))
              ELSE IF abs
                   THEN NormalizeSegs(abs, done, Tail(todo))
                   ELSE NormalizeSegs(abs, Append(done, s), Tail(todo))
         ELSE NormalizeSegs(abs, Append(done, s), Tail(todo))

\* Mutant of PathJoin: the strings are concatenated with "/" and not
\* normalised.
PathJoin_Concat(a, b) ==
    [abs |-> IF a.segs = <<>> /\ ~a.abs THEN b.abs ELSE a.abs,
     segs |-> a.segs \o b.segs]

\* path.join(a, b): the two strings joined by "/" and normalised.  An empty
\* first argument is skipped, so the result is absolute iff the first
\* non-empty argument is.
PathJoin(a, b) ==
    LET abs == IF a.segs = <<>> /\ ~a.abs THEN b.abs ELSE a.abs
    IN  [abs |-> abs, segs |-> NormalizeSegs(abs, <<>>, a.segs \o b.segs)]

\* path.dirname
PathDirname(p) ==
    [abs |-> p.abs,
     segs |-> IF p.segs = <<>> THEN <<>> ELSE SubSeq(p.segs, 1, Len(p.segs) - 1)]

\* "version" of package.json, as <<major, minor, patch>>
PackageVersion == <<1, 0, 2>>

\* process.cwd() and __dirname of index.js
Cwd == Abs(<<"work">>)
Dirname == Abs(<<"pkg">>)

\* The file a path names for the fs calls: relative paths are resolved
\* against the working directory.
Resolve(p) == IF p.abs THEN [abs |-> TRUE, segs |-> NormalizeSegs(TRUE, <<>>, p.segs)]
              ELSE PathJoin(Cwd, p)

(***************************************************************************)
(* The registry.                                                           *)
(***************************************************************************)
TEMPLATE_STRUCTURE ==
    << [key |-> "fe", name |-> "Frontend",
        description |-> "Frontend application templates",
        children |-> <<
          [key |-> "react", name |-> "React",
           description |-> "React with TypeScript, React Query, Zustand, React Router DOM, CSS Modules, React Aria, and Yarn",
           source |-> "templates/fe/react/instructions.md"],
          [key |-> "vanilla", name |-> "Vanilla JavaScript",
           description |-> "Vanilla JavaScript/TypeScript with Vite, modern CSS, and accessibility features",
           source |-> "templates/fe/vanilla/instructions.md"] >>],
       [key |-> "be", name |-> "Backend",
        description |-> "Backend API templates",
        children |-> <<
          [key |-> "node-express", name |-> "Node.js + Express",
           description |-> "Node.js Express API with TypeScript, Prisma, PostgreSQL, Redis, and JWT authentication",
           source |-> "templates/be/node-express/instructions.md"],
          [key |-> "python-django", name |-> "Python + Django",
           description |-> "Django REST API with PostgreSQL, Redis, Celery, and JWT authentication",
           source |-> "templates/be/python-django/instructions.md"] >>],
       [key |-> "github", name |-> "GitHub",
        description |-> "GitHub repository setup templates",
        children |-> <<
          [key |-> "workflows", name |-> "GitHub Workflows",
           description |-> "Complete GitHub Actions workflows for CI/CD, testing, and automation",
           source |-> "templates/github/workflows/instructions.md"] >>] >>

\* The segments of the path strings the code joins.
PathOf(str) ==
    CASE str = "templates/fe/react/instructions.md" ->
            Rel(<<"templates", "fe", "react", "instructions.md">>)
      [] str = "templates/fe/vanilla/instructions.md" ->
            Rel(<<"templates", "fe", "vanilla", "instructions.md">>)
      [] str = "templates/be/node-express/instructions.md" ->
            Rel(<<"templates", "be", "node-express", "instructions.md">>)
      [] str = "templates/be/python-django/instructions.md" ->
            Rel(<<"templates", "be", "python-django", "instructions.md">>)
      [] str = "templates/github/workflows/instructions.md" ->
            Rel(<<"templates", "github", "workflows", "instructions.md">>)
      [] str = ".github/instructions.md" ->
            Rel(<<".github", "instructions.md">>)

(***************************************************************************)
(* JavaScript objects: property lookup and Object.keys.                    *)
(***************************************************************************)
\* The properties every object literal inherits from Object.prototype.
ObjectPrototypeKeys ==
    {"constructor", "__proto__", "hasOwnProperty", "isPrototypeOf",
     "propertyIsEnumerable", "toLocaleString", "toString", "valueOf"}

Undefined == [t |-> "undefined"]
Null == [t |-> "null"]

\* obj[key]: the own property, else the inherited one, else undefined.
Get(obj, key) ==
    IF \E i \in DOMAIN obj : obj[i].key = key
    THEN [t |-> "own", value |-> obj[CHOOSE i \in DOMAIN obj : obj[i].key = key]]
    ELSE IF key \in ObjectPrototypeKeys
         THEN [t |-> "inherited", key |-> key]
         ELSE Undefined

\* !v is false for every object and function, true for undefined.
Truthy(v) == v.t # "undefined"

\* Object.keys(obj): the own enumerable keys in insertion order.
ObjectKeys(obj) == [i \in DOMAIN obj |-> obj[i].key]

\* The .name of an inherited member: the functions are named, the
\* prototype object (__proto__) has no name.
InheritedName(key) ==
    IF key = "__proto__" THEN [defined |-> FALSE, str |-> ""]
    ELSE [defined |-> TRUE, str |-> IF key = "constructor" THEN "Object" ELSE key]

\* Outcomes of a call.
Returned(v) == [status |-> "returned", value |-> v,
                error |-> [name |-> "none", format |-> "", args |-> <<>>]]
Threw(name, format, args) ==
    [status |-> "threw", value |-> Undefined,
     error |-> [name |-> name, format |-> format, args |-> args]]

\* An optional argument: left out (undefined) or given.
NoArg == [given |-> FALSE]
Arg(v) == [given |-> TRUE, v |-> v]

(***************************************************************************)
(* The file system (fs-extra).                                             *)
(***************************************************************************)
NoFile == [exists |-> FALSE, content |-> <<>>]
File(content) == [exists |-> TRUE, content |-> content]

\* Mutant of existsSync: the check always passes.
existsSync_Always(files, dirs, p) == TRUE

\* fs.existsSync(p)
existsSync(files, dirs, p) ==
    LET q == Resolve(p) IN
    \/ q \in dirs
    \/ q \in DOMAIN files /\ files[q].exists

\* The directory and every directory above it.
RECURSIVE Ancestors(_)
Ancestors(d) ==
    IF d.segs = <<>> THEN {d} ELSE {d} \cup Ancestors(PathDirname(d))

\* fs.ensureDir(d): creates the directory and the missing ones above it.
ensureDir(dirs, d) == dirs \cup Ancestors(Resolve(d))

\* Mutant of copy: the last line of the source is not written.
copy_Truncated(files, src, dest) ==
    LET content == files[Resolve(src)].content IN
    [files EXCEPT ![Resolve(dest)] =
       File(SubSeq(content, 1, Len(content) - 1))]

\* Mutant of copy: overwrite is false, an existing destination is kept.
copy_NoOverwrite(files, src, dest) ==
    IF files[Resolve(dest)].exists THEN files
    ELSE [files EXCEPT ![Resolve(dest)] = File(files[Resolve(src)].content)]

\* fs.copy(src, dest) with the default options (overwrite: true): the
\* destination becomes a file with the content of the source.
copy(files, src, dest) ==
    [files EXCEPT ![Resolve(dest)] = File(files[Resolve(src)].content)]

(***************************************************************************)
(* The exported functions of index.js, as functions of the state they read *)
(* to the outcome and the state they leave.                                *)
(***************************************************************************)
\* io: how the two awaited fs calls end ("ok", "ensureDirFails", "copyFails").
generatePRDCall(reg, files, dirs, category, template, targetDirArg, io) ==
    LET targetDir == IF targetDirArg.given THEN targetDirArg.v ELSE Cwd
        keep(outcome) == [outcome |-> outcome, files |-> files, dirs |-> dirs]
        cat == Get(reg, category)
    IN
    IF ~Truthy(cat)
    THEN keep(Threw("Error", "Category \"%\" not found", <<category>>))
    ELSE IF cat.t = "inherited"
    THEN \* .children is undefined
         keep(Threw("TypeError",
                    "Cannot read properties of undefined (reading '%')",
                    <<template>>))
    ELSE
    LET tmpl == Get(cat.value.children, template) IN
    IF ~Truthy(tmpl)
    THEN keep(Threw("Error", "Template \"%\" not found in category \"%\"",
                    <<template, category>>))
    ELSE IF tmpl.t = "inherited"
    THEN \* .source is undefined and path.join rejects it
         keep(Threw("TypeError",
                    "The \"path\" argument must be of type string. Received undefined",
                    <<>>))
    ELSE
    LET selectedTemplate == tmpl.value
        sourcePath == PathJoin(Dirname, PathOf(selectedTemplate.source))
        targetPath == PathJoin(targetDir, PathOf(".github/instructions.md"))
    IN
    IF ~existsSync(files, dirs, sourcePath)
    THEN keep(Threw("Error", "Template file not found: %",
                    <<selectedTemplate.source>>))
    ELSE IF io = "ensureDirFails"
    THEN keep(Threw("Error", "ensureDir failed", <<>>))
    ELSE
    LET dirs2 == ensureDir(dirs, PathDirname(targetPath)) IN
    IF io = "copyFails"
    THEN [outcome |-> Threw("Error", "copy failed", <<>>),
          files |-> files, dirs |-> dirs2]
    ELSE [outcome |-> Returned(targetPath),
          files |-> copy(files, sourcePath, targetPath), dirs |-> dirs2]

getAvailableCategoriesCall(reg) == Returned(ObjectKeys(reg))

\* Mutant of AllTemplatesFrom: the composite id is template/category.
RECURSIVE AllTemplatesFrom_Swapped(_, _, _)
AllTemplatesFrom_Swapped(reg, c, t) ==
    IF c > Len(reg) THEN <<>>
    ELSE IF t > Len(reg[c].children) THEN AllTemplatesFrom_Swapped(reg, c + 1, 1)
    ELSE <<ObjectKeys(reg[c].children)[t] \o "/" \o ObjectKeys(reg)[c]>>
         \o AllTemplatesFrom_Swapped(reg, c, t + 1)

\* The forEach loops of getAvailableTemplates(): the composite ids of the
\* categories from index c on, templates from index t on.
RECURSIVE AllTemplatesFrom(_, _, _)
AllTemplatesFrom(reg, c, t) ==
    IF c > Len(reg) THEN <<>>
    ELSE IF t > Len(reg[c].children) THEN AllTemplatesFrom(reg, c + 1, 1)
    ELSE <<ObjectKeys(reg)[c] \o "/" \o ObjectKeys(reg[c].children)[t]>>
         \o AllTemplatesFrom(reg, c, t + 1)

getAvailableTemplatesCall(reg, categoryArg) ==
    \* !category: no argument, or the empty string
    IF ~categoryArg.given \/ categoryArg.v = ""
    THEN Returned(AllTemplatesFrom(reg, 1, 1))
    ELSE
    LET category == categoryArg.v
        cat == Get(reg, category)
    IN
    IF ~Truthy(cat)
    THEN Threw("Error", "Category \"%\" not found", <<category>>)
    ELSE IF cat.t = "inherited"
    THEN \* Object.keys(undefined)
         Threw("TypeError", "Cannot convert undefined or null to object", <<>>)
    ELSE Returned(ObjectKeys(cat.value.children))

\* Mutant of getTemplateInfoCall: an unknown id is an error, as in
\* generatePRD.
getTemplateInfoCall_Throwing(reg, category, template) ==
    LET cat == Get(reg, category) IN
    IF ~Truthy(cat)
    THEN Threw("Error", "Category \"%\" not found", <<category>>)
    ELSE IF cat.t = "inherited"
    THEN Threw("TypeError",
               "Cannot read properties of undefined (reading '%')",
               <<template>>)
    ELSE
    LET tmpl == Get(cat.value.children, template) IN
    IF ~Truthy(tmpl)
    THEN Threw("Error", "Template \"%\" not found in category \"%\"",
               <<template, category>>)
    ELSE IF tmpl.t = "inherited"
    THEN Returned([t |-> "info", category |-> cat.value.name,
                   template |-> InheritedName(template).str,
                   description |-> "", source |-> "",
                   undefinedFields |-> {"description", "source"}])
    ELSE Returned([t |-> "info", category |-> cat.value.name,
                   template |-> tmpl.value.name,
                   description |-> tmpl.value.description,
                   source |-> tmpl.value.source,
                   undefinedFields |-> {}])

getTemplateInfoCall(reg, category, template) ==
    LET cat == Get(reg, category) IN
    IF ~Truthy(cat) THEN Returned(Null)
    ELSE IF cat.t = "inherited"
    THEN \* .children is undefined
         Threw("TypeError",
               "Cannot read properties of undefined (reading '%')",
               <<template>>)
    ELSE
    LET tmpl == Get(cat.value.children, template) IN
    IF ~Truthy(tmpl) THEN Returned(Null)
    ELSE IF tmpl.t = "inherited"
    THEN Returned([t |-> "info",
                   category |-> cat.value.name,
                   template |-> InheritedName(template).str,
                   description |-> "",
                   source |-> "",
                   undefinedFields |->
                       {"description", "source"} \cup
                       (IF InheritedName(template).defined THEN {} ELSE {"template"})])
    ELSE Returned([t |-> "info",
                   category |-> cat.value.name,
                   template |-> tmpl.value.name,
                   description |-> tmpl.value.description,
                   source |-> tmpl.value.source,
                   undefinedFields |-> {}])


(***************************************************************************)
(* The registry's state machine.                                           *)
(***************************************************************************)
\* The (category, template) pairs the calls are made with: the registered
\* pairs, ids that are not registered, a template of another category, the
\* name of an inherited property, and the empty string.
RegisteredPairs ==
    {<<"fe", "react">>, <<"fe", "vanilla">>, <<"be", "node-express">>,
     <<"be", "python-django">>, <<"github", "workflows">>}
UnregisteredPairs ==
    {<<"invalid", "template">>, <<"fe", "invalid">>, <<"be", "react">>,
     <<"constructor", "react">>, <<"fe", "constructor">>, <<"", "react">>}
CallPairs == RegisteredPairs \cup UnregisteredPairs
CategoryIds == {p[1] : p \in CallPairs}

\* The destination roots: none (the default, process.cwd()), an absolute
\* one, and the same directory relative to the working directory.
TargetDirs == {NoArg, Arg(Abs(<<"work", "proj">>)), Arg(Rel(<<".", "proj">>))}

\* How the awaited fs calls of one generatePRD end.
IoOutcomes == {"ok", "ensureDirFails", "copyFails"}

\* The registered source documents and what the package ships in them (the
\* first headings stand for the whole text).
AllEntries(reg) == UNION {Range(reg[c].children) : c \in DOMAIN reg}
Sources == {e.source : e \in AllEntries(TEMPLATE_STRUCTURE)}
SourcePath(src) == Resolve(PathJoin(Dirname, PathOf(src)))
SourceContent(src) ==
    CASE src = "templates/fe/react/instructions.md" ->
            <<"# Frontend Development Instructions - React Application",
              "## Overview", "## Tech Stack Requirements">>
      [] src = "templates/fe/vanilla/instructions.md" ->
            <<"# Vanilla Frontend Development Instructions",
              "## Project Overview">>
      [] src = "templates/be/node-express/instructions.md" ->
            <<"# Node.js Express Backend Development Instructions",
              "## Project Overview", "## Technology Stack",
              "## Project Structure">>
      [] src = "templates/be/python-django/instructions.md" ->
            <<"# Django REST API">>
      [] src = "templates/github/workflows/instructions.md" ->
            <<"# GitHub Workflows Development Instructions",
              "## Project Overview">>

\* A file the user already keeps at the destination.
UserContent == <<"# My own instructions", "keep", "these", "five", "lines">>

DestinationFiles ==
    {Resolve(PathJoin(IF d.given THEN d.v ELSE Cwd, PathOf(".github/instructions.md")))
       : d \in TargetDirs}
AllFiles == {SourcePath(src) : src \in Sources} \cup DestinationFiles

\* What the installation lacks: nothing, or one source document (a call
\* reads only the source document of its own pair).
MissingSources == {{}} \cup {{src} : src \in Sources}

\* The package is installed with some of its source documents missing; the
\* working directory already holds an instructions file of the user, the
\* other destination does not exist yet.
RegistryInit ==
    /\ registry = TEMPLATE_STRUCTURE
    /\ \E missing \in MissingSources :
         LET own == Resolve(PathJoin(Cwd, PathOf(".github/instructions.md"))) IN
         /\ fsFiles = [f \in AllFiles |->
                         IF \E src \in Sources \ missing : f = SourcePath(src)
                         THEN File(SourceContent(
                                CHOOSE src \in Sources : f = SourcePath(src)))
                         ELSE IF f = own THEN File(UserContent)
                         ELSE NoFile]
         /\ fsDirs = Ancestors(Dirname) \cup Ancestors(PathDirname(own))
    /\ result = [op |-> "none", category |-> NoArg, template |-> NoArg,
                 targetDir |-> NoArg, outcome |-> Returned(Undefined)]
    \* the version manager is not run
    /\ currentVersion = PackageVersion
    /\ commits = <<>>
    /\ categories = Undefined
    /\ suggestion = Undefined
    /\ call = Undefined
    /\ git = Undefined
    /\ proc = Undefined

generatePRD(category, template, targetDir) ==
    \E r \in {generatePRDCall(registry, fsFiles, fsDirs,
                              category, template, targetDir, io)
                : io \in IoOutcomes} :
      /\ result' = [op |-> "generatePRD", category |-> Arg(category),
                    template |-> Arg(template), targetDir |-> targetDir,
                    outcome |-> r.outcome]
      /\ fsFiles' = r.files
      /\ fsDirs' = r.dirs
      /\ UNCHANGED <<registry, versionVars, releaseVars>>

getAvailableCategories ==
    /\ result' = [op |-> "getAvailableCategories", category |-> NoArg,
                  template |-> NoArg, targetDir |-> NoArg,
                  outcome |-> getAvailableCategoriesCall(registry)]
    /\ UNCHANGED <<registry, fsFiles, fsDirs, versionVars, releaseVars>>

getAvailableTemplates(category) ==
    /\ result' = [op |-> "getAvailableTemplates", category |-> category,
                  template |-> NoArg, targetDir |-> NoArg,
                  outcome |-> getAvailableTemplatesCall(registry, category)]
    /\ UNCHANGED <<registry, fsFiles, fsDirs, versionVars, releaseVars>>

\* Mutant of getTemplateInfo: the call renames the first category of the
\* registry in place.
getTemplateInfo_Mutating(category, template) ==
    /\ result' = [op |-> "getTemplateInfo", category |-> Arg(category),
                  template |-> Arg(template), targetDir |-> NoArg,
                  outcome |-> getTemplateInfoCall(registry, category, template)]
    /\ registry' = [registry EXCEPT ![1].key = category]
    /\ UNCHANGED <<fsFiles, fsDirs, versionVars, releaseVars>>

getTemplateInfo(category, template) ==
    /\ result' = [op |-> "getTemplateInfo", category |-> Arg(category),
                  template |-> Arg(template), targetDir |-> NoArg,
                  outcome |-> getTemplateInfoCall(registry, category, template)]
    /\ UNCHANGED <<registry, fsFiles, fsDirs, versionVars, releaseVars>>

RegistryNext ==
    \/ \E p \in CallPairs, d \in TargetDirs : generatePRD(p[1], p[2], d)
    \/ getAvailableCategories
    \/ \E c \in {NoArg} \cup {Arg(id) : id \in CategoryIds} :
         getAvailableTemplates(c)
    \/ \E p \in CallPairs : getTemplateInfo(p[1], p[2])

RegistrySpec == RegistryInit /\ [][RegistryNext]_vars


(***************************************************************************)
(* Strings that are searched: sequences of characters.                     *)
(***************************************************************************)
LowerOf ==
    [A |-> "a", B |-> "b", C |-> "c", D |-> "d", E |-> "e", F |-> "f",
     G |-> "g", H |-> "h", I |-> "i", J |-> "j", K |-> "k", L |-> "l",
     M |-> "m", N |-> "n", O |-> "o", P |-> "p", Q |-> "q", R |-> "r",
     S |-> "s", T |-> "t", U |-> "u", V |-> "v", W |-> "w", X |-> "x",
     Y |-> "y", Z |-> "z"]

\* String.prototype.toLowerCase
toLowerCase(s) ==
    [i \in DOMAIN s |-> IF s[i] \in DOMAIN LowerOf THEN LowerOf[s[i]] ELSE s[i]]

\* String.prototype.includes
includes(s, sub) ==
    \E i \in 0..(Len(s) - Len(sub)) : \A k \in DOMAIN sub : s[i + k] = sub[k]

\* String.prototype.startsWith
startsWith(s, prefix) ==
    Len(s) >= Len(prefix) /\ \A k \in DOMAIN prefix : s[k] = prefix[k]

S_breaking == <<"b", "r", "e", "a", "k", "i", "n", "g">>
S_breaking_change == <<"b", "r", "e", "a", "k", "i", "n", "g", " ", "c", "h", "a", "n", "g", "e">>
S_feat == <<"f", "e", "a", "t">>
S_feature == <<"f", "e", "a", "t", "u", "r", "e">>
S_fix == <<"f", "i", "x">>
S_docs == <<"d", "o", "c", "s">>
S_style == <<"s", "t", "y", "l", "e">>
S_refactor == <<"r", "e", "f", "a", "c", "t", "o", "r">>
S_test == <<"t", "e", "s", "t">>
S_perf == <<"p", "e", "r", "f">>
S_security == <<"s", "e", "c", "u", "r", "i", "t", "y">>
S_vulnerability == <<"v", "u", "l", "n", "e", "r", "a", "b", "i", "l", "i", "t", "y">>
S_chore == <<"c", "h", "o", "r", "e">>

(***************************************************************************)
(* scripts/version-manager.js: VersionManager.                             *)
(***************************************************************************)
\* The category names in the order of the object literal of categorizeCommits.
CategoryNames ==
    <<"breaking", "features", "fixes", "docs", "style", "refactor", "test",
      "chore", "security", "performance", "other">>

\* The condition of each branch of the if/else chain, on the lower-cased
\* subject and body ("other" is the final else).
Matches(bucket, message, body) ==
    CASE bucket = "breaking" ->
            includes(message, S_breaking) \/ includes(body, S_breaking_change)
      [] bucket = "features" ->
            startsWith(message, S_feat) \/ startsWith(message, S_feature)
      [] bucket = "fixes" -> startsWith(message, S_fix)
      [] bucket = "docs" -> startsWith(message, S_docs)
      [] bucket = "style" -> startsWith(message, S_style)
      [] bucket = "refactor" -> startsWith(message, S_refactor)
      [] bucket = "test" -> startsWith(message, S_test)
      [] bucket = "performance" -> startsWith(message, S_perf)
      [] bucket = "security" ->
            startsWith(message, S_security) \/ includes(message, S_vulnerability)
      [] bucket = "chore" -> startsWith(message, S_chore)
      [] bucket = "other" -> TRUE

\* Mutant of BucketOf: the chore branch comes before the security branch.
BucketOf_ChoreBeforeSecurity(commit) ==
    LET message == toLowerCase(commit.message)
        body == toLowerCase(commit.body)
    IN
    IF Matches("breaking", message, body) THEN "breaking"
    ELSE IF Matches("features", message, body) THEN "features"
    ELSE IF Matches("fixes", message, body) THEN "fixes"
    ELSE IF Matches("docs", message, body) THEN "docs"
    ELSE IF Matches("style", message, body) THEN "style"
    ELSE IF Matches("refactor", message, body) THEN "refactor"
    ELSE IF Matches("test", message, body) THEN "test"
    ELSE IF Matches("performance", message, body) THEN "performance"
    ELSE IF Matches("chore", message, body) THEN "chore"
    ELSE IF Matches("security", message, body) THEN "security"
    ELSE "other"

\* The forEach callback: the lower-cased subject and body, then the if/else
\* chain that picks the array the commit is pushed to.
BucketOf(commit) ==
    LET message == toLowerCase(commit.message)
        body == toLowerCase(commit.body)
    IN
    IF Matches("breaking", message, body) THEN "breaking"
    ELSE IF Matches("features", message, body) THEN "features"
    ELSE IF Matches("fixes", message, body) THEN "fixes"
    ELSE IF Matches("docs", message, body) THEN "docs"
    ELSE IF Matches("style", message, body) THEN "style"
    ELSE IF Matches("refactor", message, body) THEN "refactor"
    ELSE IF Matches("test", message, body) THEN "test"
    ELSE IF Matches("performance", message, body) THEN "performance"
    ELSE IF Matches("security", message, body) THEN "security"
    ELSE IF Matches("chore", message, body) THEN "chore"
    ELSE "other"

\* commits.forEach from index i on, pushing onto the arrays of cats.
RECURSIVE CategorizeFrom(_, _, _)
CategorizeFrom(cats, cs, i) ==
    IF i > Len(cs) THEN cats
    ELSE CategorizeFrom(
           [cats EXCEPT ![BucketOf(cs[i])] = Append(@, cs[i])], cs, i + 1)

categorizeCommits(cs) ==
    CategorizeFrom([b \in Range(CategoryNames) |-> <<>>], cs, 1)

\* Mutant of getVersionReasoning: no reason is given when no bucket counts.
getVersionReasoning_NoDefault(cats) ==
    (IF Len(cats.breaking) > 0
     THEN <<[n |-> Len(cats.breaking), what |-> "breaking change(s)"]>>
     ELSE <<>>)
    \o (IF Len(cats.features) > 0
        THEN <<[n |-> Len(cats.features), what |-> "new feature(s)"]>>
        ELSE <<>>)
    \o (IF Len(cats.fixes) > 0
        THEN <<[n |-> Len(cats.fixes), what |-> "bug fix(es)"]>>
        ELSE <<>>)

\* getVersionReasoning: the reasons in order, or the default sentence.
getVersionReasoning(cats) ==
    LET reasons ==
          (IF Len(cats.breaking) > 0
           THEN <<[n |-> Len(cats.breaking), what |-> "breaking change(s)"]>>
           ELSE <<>>)
          \o (IF Len(cats.features) > 0
              THEN <<[n |-> Len(cats.features), what |-> "new feature(s)"]>>
              ELSE <<>>)
          \o (IF Len(cats.fixes) > 0
              THEN <<[n |-> Len(cats.fixes), what |-> "bug fix(es)"]>>
              ELSE <<>>)
    IN  IF Len(reasons) > 0 THEN reasons
        ELSE <<[n |-> 0, what |-> "Minor changes and improvements"]>>

\* semver.inc(version, type) on <<major, minor, patch>>
semverInc(v, type) ==
    CASE type = "major" -> <<v[1] + 1, 0, 0>>
      [] type = "minor" -> <<v[1], v[2] + 1, 0>>
      [] type = "patch" -> <<v[1], v[2], v[3] + 1>>

getNextVersion(current, type) == semverInc(current, type)

\* Mutant of suggestedType: the feature bucket is looked at first.
suggestedType_FeatureFirst(cats) ==
    IF Len(cats.features) > 0 THEN "minor"
    ELSE IF Len(cats.breaking) > 0 THEN "major"
    ELSE "patch"

\* The type suggestNextVersion derives from the categories.
suggestedType(cats) ==
    IF Len(cats.breaking) > 0 THEN "major"
    ELSE IF Len(cats.features) > 0 THEN "minor"
    ELSE "patch"

suggestNextVersionCall(current, cs) ==
    LET cats == categorizeCommits(cs) IN
    [type |-> suggestedType(cats),
     version |-> getNextVersion(current, suggestedType(cats)),
     reasoning |-> getVersionReasoning(cats),
     commits |-> Len(cs)]

(***************************************************************************)
(* The version manager's state machine.                                    *)
(***************************************************************************)
\* The commits a developer makes: subject and body.
CommitPool ==
    <<[message |-> <<"f", "e", "a", "t", ":", " ", "a", "d", "d", " ", "l", "o", "g", "i", "n">>,
       body |-> <<>>],
      [message |-> <<"f", "i", "x", ":", " ", "n", "u", "l", "l", " ", "c", "h", "e", "c", "k">>,
       body |-> <<>>],
      [message |-> <<"c", "h", "o", "r", "e", ":", " ", "b", "u", "m", "p", " ", "d", "e", "p", "s">>,
       body |-> <<>>],
      [message |-> <<"f", "e", "a", "t", ":", " ", "B", "R", "E", "A", "K", "I", "N", "G", " ", "a", "p", "i">>,
       body |-> <<>>],
      [message |-> <<"f", "i", "x", ":", " ", "t", "y", "p", "o">>,
       body |-> <<"B", "R", "E", "A", "K", "I", "N", "G", " ", "C", "H", "A", "N", "G", "E", ":", " ", "x">>],
      [message |-> <<"d", "o", "c", "s", ":", " ", "a", "p", "i">>,
       body |-> <<>>],
      [message |-> <<"s", "t", "y", "l", "e", ":", " ", "l", "i", "n", "t">>,
       body |-> <<>>],
      [message |-> <<"r", "e", "f", "a", "c", "t", "o", "r", ":", " ", "i", "o">>,
       body |-> <<>>],
      [message |-> <<"t", "e", "s", "t", ":", " ", "f", "i", "x">>,
       body |-> <<>>],
      [message |-> <<"p", "e", "r", "f", ":", " ", "c", "a", "c", "h", "e">>,
       body |-> <<>>],
      [message |-> <<"c", "h", "o", "r", "e", ":", " ", "f", "i", "x", " ", "v", "u", "l", "n", "e", "r", "a", "b", "i", "l", "i", "t", "y">>,
       body |-> <<>>],
      [message |-> <<"u", "p", "d", "a", "t", "e", " ", "r", "e", "a", "d", "m", "e">>,
       body |-> <<"w", "a", "s", " ", "b", "r", "e", "a", "k", "i", "n", "g">>]>>

\* At most this many commits since the last tag.
MaxCommits == 3

VersionInit ==
    /\ currentVersion = PackageVersion
    /\ commits = <<>>
    /\ categories = Undefined
    /\ suggestion = Undefined
    \* scripts/version-manager.js does not load index.js
    /\ registry = <<>>
    /\ fsFiles = <<>>
    /\ fsDirs = {}
    /\ result = [op |-> "none", category |-> NoArg, template |-> NoArg,
                 targetDir |-> NoArg, outcome |-> Returned(Undefined)]
    /\ call = Undefined
    /\ git = Undefined
    /\ proc = Undefined

\* A developer commits: git log lists the newest commit first.  The next
\* command runs in a new process, which has no results yet.
Commit(c) ==
    /\ Len(commits) < MaxCommits
    /\ commits' = <<[hash |-> Len(commits) + 1,
                     message |-> c.message,
                     author |-> "dev",
                     date |-> "2025-01-01",
                     body |-> c.body]>> \o commits
    /\ categories' = Undefined
    /\ suggestion' = Undefined
    /\ UNCHANGED <<registryVars, releaseVars, currentVersion>>

\* categorizeCommits on the commits since the last tag
CategorizeCommits ==
    /\ categories' = [t |-> "categories",
                      buckets |-> categorizeCommits(commits)]
    /\ UNCHANGED <<registryVars, releaseVars, currentVersion, commits, suggestion>>

\* The suggest command: suggestNextVersion, which categorizes the commits
\* since the last tag itself.
SuggestNextVersion ==
    /\ categories' = [t |-> "categories",
                      buckets |-> categorizeCommits(commits)]
    /\ suggestion' = [t |-> "suggestion",
                      value |-> suggestNextVersionCall(currentVersion, commits)]
    /\ UNCHANGED <<registryVars, releaseVars, currentVersion, commits>>

VersionNext ==
    \/ \E i \in DOMAIN CommitPool : Commit(CommitPool[i])
    \/ CategorizeCommits
    \/ SuggestNextVersion

VersionSpec == VersionInit /\ [][VersionNext]_vars


(***************************************************************************)
(* Version numbers.  package.json holds the version as text "x.y.z"; the   *)
(* semver library works on the parsed <<major, minor, patch>>, release.js  *)
(* on the text itself.                                                     *)
(***************************************************************************)
Digits == <<"0", "1", "2", "3", "4", "5", "6", "7", "8", "9">>

\* Number.prototype.toString of a non-negative integer (template literal)
RECURSIVE NumberToString(_)
NumberToString(n) ==
    IF n < 10 THEN <<Digits[n + 1]>>
    ELSE NumberToString(n \div 10) \o <<Digits[(n % 10) + 1]>>

IsDigit(c) == \E i \in DOMAIN Digits : Digits[i] = c

DigitValue(c) == (CHOOSE i \in DOMAIN Digits : Digits[i] = c) - 1

\* What Number(text) gives for text that is not a decimal number.
NaN == -1

RECURSIVE DigitsValue(_, _)
DigitsValue(s, acc) ==
    IF s = <<>> THEN acc
    ELSE DigitsValue(Tail(s), 10 * acc + DigitValue(Head(s)))

\* Number(text): the value of a run of decimal digits, 0 for "", else NaN
StringToNumber(s) ==
    IF \A i \in DOMAIN s : IsDigit(s[i]) THEN DigitsValue(s, 0) ELSE NaN

\* n + 1 in JavaScript arithmetic (NaN + 1 is NaN)
PlusOne(n) == IF n = NaN THEN NaN ELSE n + 1

\* `${n}` for a number
TemplateNumber(n) == IF n = NaN THEN <<"N", "a", "N">> ELSE NumberToString(n)

\* String.prototype.split on a one-character separator
RECURSIVE Split(_, _)
Split(s, sep) ==
    IF \A i \in DOMAIN s : s[i] # sep THEN <<s>>
    ELSE LET first == CHOOSE i \in DOMAIN s :
                        /\ s[i] = sep
                        /\ \A j \in 1 .. i - 1 : s[j] # sep
         IN  <<SubSeq(s, 1, first - 1)>>
               \o Split(SubSeq(s, first + 1, Len(s)), sep)

\* The text of a version <<major, minor, patch>> (SemVer.format)
VersionString(v) ==
    NumberToString(v[1]) \o <<".">> \o NumberToString(v[2]) \o <<".">>
      \o NumberToString(v[3])

\* semver.inc(current, type[, "alpha"]) as text; VersionManager.getNextVersion
getNextVersionCall(current, type) ==
    CASE type \in {"major", "minor", "patch"} ->
           Returned(VersionString(semverInc(current, type)))
      [] type = "prerelease" ->
           \* 1.0.2 becomes 1.0.3-alpha.0
           Returned(VersionString(semverInc(current, "patch"))
                      \o <<"-", "a", "l", "p", "h", "a", ".", "0">>)
      [] OTHER -> Threw("Error", "Invalid version type: %", <<type>>)

\* Mutant of ReleaseManager_getNextVersion: a minor bump keeps the patch
\* number.
ReleaseManager_getNextVersion_KeepPatch(current, type) ==
    LET parts == Split(current, ".")
        major == StringToNumber(parts[1])
        minor == StringToNumber(parts[2])
        patch == StringToNumber(parts[3])
    IN  CASE type = "major" ->
               Returned(TemplateNumber(PlusOne(major)) \o <<".", "0", ".", "0">>)
          [] type = "minor" ->
               Returned(TemplateNumber(major) \o <<".">>
                          \o TemplateNumber(PlusOne(minor)) \o <<".">>
                          \o TemplateNumber(patch))
          [] type = "patch" ->
               Returned(TemplateNumber(major) \o <<".">> \o TemplateNumber(minor)
                          \o <<".">> \o TemplateNumber(PlusOne(patch)))
          [] OTHER -> Threw("Error", "Invalid version type: %", <<type>>)

\* ReleaseManager.getNextVersion on the text of this.currentVersion, which
\* has three parts.
ReleaseManager_getNextVersion(current, type) ==
    LET parts == Split(current, ".")
        major == StringToNumber(parts[1])
        minor == StringToNumber(parts[2])
        patch == StringToNumber(parts[3])
    IN  CASE type = "major" ->
               Returned(TemplateNumber(PlusOne(major)) \o <<".", "0", ".", "0">>)
          [] type = "minor" ->
               Returned(TemplateNumber(major) \o <<".">>
                          \o TemplateNumber(PlusOne(minor)) \o <<".", "0">>)
          [] type = "patch" ->
               Returned(TemplateNumber(major) \o <<".">> \o TemplateNumber(minor)
                          \o <<".">> \o TemplateNumber(PlusOne(patch)))
          [] OTHER -> Threw("Error", "Invalid version type: %", <<type>>)

\* Mutant of getSemverIncrease: an equal minor number counts as increased.
getSemverIncrease_AtLeast(from, to) ==
    IF to[1] > from[1] THEN "major"
    ELSE IF to[2] >= from[2] THEN "minor"
    ELSE IF to[3] > from[3] THEN "patch"
    ELSE "none"

\* VersionManager.getSemverIncrease(from, to); semver.major, semver.minor
\* and semver.patch are the parts of the parsed version.
getSemverIncrease(from, to) ==
    IF to[1] > from[1] THEN "major"
    ELSE IF to[2] > from[2] THEN "minor"
    ELSE IF to[3] > from[3] THEN "patch"
    ELSE "none"

\* Version parts up to this bound are tried, and the step from one digit
\* to two.
MaxVersionPart == 2

VersionParts == (0 .. MaxVersionPart) \cup {9, 10}

Versions == {<<a, b, c>> : a \in VersionParts, b \in VersionParts, c \in VersionParts}

\* The types a caller passes: the prompt's choices, the prerelease type
\* only version-manager.js knows, and a misspelt one.
VersionTypes == {"major", "minor", "patch", "prerelease", "mayor"}

\* package.json holds some version; nothing was computed yet.
SemverInit ==
    /\ currentVersion \in Versions
    /\ call = [op |-> "none", arg |-> Undefined, outcome |-> Returned(Undefined)]
    /\ git = Undefined
    /\ proc = Undefined
    /\ commits = <<>>
    /\ categories = Undefined
    /\ suggestion = Undefined
    /\ registry = <<>>
    /\ fsFiles = <<>>
    /\ fsDirs = {}
    /\ result = [op |-> "none", category |-> NoArg, template |-> NoArg,
                 targetDir |-> NoArg, outcome |-> Returned(Undefined)]

VersionManagerGetNextVersion(type) ==
    /\ call' = [op |-> "VersionManager.getNextVersion", arg |-> type,
                  outcome |-> getNextVersionCall(currentVersion, type)]
    /\ UNCHANGED <<registryVars, versionVars, cliVars>>

ReleaseManagerGetNextVersion(type) ==
    /\ call' = [op |-> "ReleaseManager.getNextVersion", arg |-> type,
                  outcome |-> ReleaseManager_getNextVersion(
                                VersionString(currentVersion), type)]
    /\ UNCHANGED <<registryVars, versionVars, cliVars>>

GetSemverIncrease(to) ==
    /\ call' = [op |-> "getSemverIncrease", arg |-> to,
                  outcome |-> Returned(getSemverIncrease(currentVersion, to))]
    /\ UNCHANGED <<registryVars, versionVars, cliVars>>

SemverNext ==
    \/ \E type \in VersionTypes : VersionManagerGetNextVersion(type)
    \/ \E type \in VersionTypes : ReleaseManagerGetNextVersion(type)
    \/ \E to \in Versions : GetSemverIncrease(to)

SemverSpec == SemverInit /\ [][SemverNext]_vars


(***************************************************************************)
(* JavaScript values that are written as JSON.  A value carries its type:  *)
(* string, number, null, undefined, array (a sequence of values) or object *)
(* (the sequence of its properties in insertion order).                    *)
(***************************************************************************)
Str(s) == [t |-> "string", v |-> s]
Num(n) == [t |-> "number", v |-> n]
Arr(items) == [t |-> "array", v |-> items]
Obj(props) == [t |-> "object", v |-> props]

\* obj[key] of an object that has no property of that name inherited
Prop(obj, key) ==
    IF \E i \in DOMAIN obj.v : obj.v[i].key = key
    THEN obj.v[CHOOSE i \in DOMAIN obj.v : obj.v[i].key = key].value
    ELSE Undefined

\* obj[key] = value: an own property keeps its place, a new one is last
SetProp(obj, key, value) ==
    IF \E i \in DOMAIN obj.v : obj.v[i].key = key
    THEN Obj([i \in DOMAIN obj.v |->
                IF obj.v[i].key = key THEN [key |-> key, value |-> value]
                ELSE obj.v[i]])
    ELSE Obj(Append(obj.v, [key |-> key, value |-> value]))

\* JSON.stringify: a property whose value is undefined is left out, an
\* undefined array item and NaN become null.
RECURSIVE JsonOf(_), JsonProps(_), JsonItems(_)
JsonOf(value) ==
    CASE value.t = "object" -> Obj(JsonProps(value.v))
      [] value.t = "array" -> Arr(JsonItems(value.v))
      [] value.t = "number" -> IF value.v = NaN THEN Null ELSE value
      [] OTHER -> value

JsonProps(props) ==
    IF props = <<>> THEN <<>>
    ELSE IF Head(props).value = Undefined THEN JsonProps(Tail(props))
    ELSE <<[key |-> Head(props).key, value |-> JsonOf(Head(props).value)]>>
           \o JsonProps(Tail(props))

JsonItems(items) ==
    IF items = <<>> THEN <<>>
    ELSE <<IF Head(items) = Undefined THEN Null ELSE JsonOf(Head(items))>>
           \o JsonItems(Tail(items))

\* The text of a JSON document is kept as the value it denotes.
JsonStringify(value) == [json |-> JsonOf(value)]
JsonParse(text) == text.json

\* fs.writeJson and fs.readJson of fs-extra
writeJson(files, p, value) == [files EXCEPT ![p] = File(JsonStringify(value))]
readJson(files, p) == JsonParse(files[p].content)

(***************************************************************************)
(* The version history of scripts/version-manager.js.                      *)
(***************************************************************************)
\* __dirname of the scripts and the paths of the VersionManager constructor
ScriptsDirname == PathJoin(Dirname, Rel(<<"scripts">>))
rootDir == PathJoin(ScriptsDirname, Rel(<<"..">>))
packagePath == PathJoin(rootDir, Rel(<<"package.json">>))
changelogPath == PathJoin(rootDir, Rel(<<"CHANGELOG.md">>))
versionHistoryPath == PathJoin(rootDir, Rel(<<".version-history.json">>))

\* new Date().toISOString(): some instant
Timestamp == Str("2025-01-28T00:00:00.000Z")

\* initVersionHistory: writes an empty history unless the file exists.
initVersionHistoryCall(files) ==
    IF ~files[versionHistoryPath].exists
    THEN writeJson(files, versionHistoryPath,
                   Obj(<<[key |-> "versions", value |-> Arr(<<>>)],
                         [key |-> "lastRelease", value |-> Null],
                         [key |-> "totalReleases", value |-> Num(0)],
                         [key |-> "created", value |-> Timestamp]>>))
    ELSE files

\* getVersionHistory: the files afterwards and the history read
getVersionHistoryCall(files) ==
    LET after == initVersionHistoryCall(files) IN
    [files |-> after, outcome |-> Returned(readJson(after, versionHistoryPath))]

\* A parsed commit as a JavaScript object
CommitObject(c) ==
    Obj(<<[key |-> "hash", value |-> Str(c.hash)],
          [key |-> "message", value |-> Str(c.message)],
          [key |-> "author", value |-> Str(c.author)],
          [key |-> "date", value |-> Str(c.date)],
          [key |-> "body", value |-> Str(c.body)]>>)

\* Mutant of Slice10: every commit is kept.
Slice10_All(cs) == cs

\* commits.slice(0, 10)
Slice10(cs) == SubSeq(cs, 1, IF Len(cs) < 10 THEN Len(cs) ELSE 10)

\* history.totalReleases++
Increment(value) ==
    IF value.t = "number" THEN Num(PlusOne(value.v)) ELSE Num(NaN)

\* Mutant of unshiftEntry: the new entry replaces the newest one.
unshiftEntry_Replacing(history, versionEntry) ==
    LET versions == Prop(history, "versions").v IN
    SetProp(
      SetProp(
        SetProp(
          SetProp(history, "versions",
                  Arr(<<versionEntry>>
                        \o (IF versions = <<>> THEN <<>> ELSE Tail(versions)))),
          "lastRelease", versionEntry),
        "totalReleases", Increment(Prop(history, "totalReleases"))),
      "updated", Timestamp)

\* Mutant of unshiftEntry: the new entry is pushed to the end.
unshiftEntry_Appending(history, versionEntry) ==
    SetProp(
      SetProp(
        SetProp(
          SetProp(history, "versions",
                  Arr(Append(Prop(history, "versions").v, versionEntry))),
          "lastRelease", versionEntry),
        "totalReleases", Increment(Prop(history, "totalReleases"))),
      "updated", Timestamp)

\* The update of the history object in addVersionToHistory: unshift,
\* lastRelease, totalReleases++, updated.
unshiftEntry(history, versionEntry) ==
    SetProp(
      SetProp(
        SetProp(
          SetProp(history, "versions",
                  Arr(<<versionEntry>> \o Prop(history, "versions").v)),
          "lastRelease", versionEntry),
        "totalReleases", Increment(Prop(history, "totalReleases"))),
      "updated", Timestamp)

\* The versionEntry object addVersionToHistory builds.
versionEntryOf(current, version, type, description, cs) ==
    Obj(<<[key |-> "version", value |-> Str(VersionString(version))],
          [key |-> "type", value |-> type],
          [key |-> "description", value |-> description],
          [key |-> "date", value |-> Timestamp],
          [key |-> "commits", value |-> Num(Len(cs))],
          [key |-> "commitDetails",
           value |-> Arr([i \in DOMAIN Slice10(cs) |-> CommitObject(cs[i])])],
          [key |-> "previousVersion", value |-> Str(VersionString(current))],
          [key |-> "semverIncrease",
           value |-> Str(getSemverIncrease(current, version))]>>)

\* addVersionToHistory(version, type, description, commits) of an instance
\* whose currentVersion is `current`; the final writeJson may fail.
addVersionToHistoryCall(files, current, version, type, description, cs, io) ==
    LET got == getVersionHistoryCall(files)
        versionEntry == versionEntryOf(current, version, type, description, cs)
        history == unshiftEntry(got.outcome.value, versionEntry)
    IN  IF io = "writeFails"
        THEN [files |-> got.files,
              outcome |-> Threw("Error", "EACCES: permission denied, open '%'",
                                <<".version-history.json">>)]
        ELSE [files |-> writeJson(got.files, versionHistoryPath, history),
              outcome |-> Returned(versionEntry)]


\* The first n commits of the pool as git log lists them.
LogOf(n) ==
    [i \in 1 .. n |-> [hash |-> n - i + 1,
                       message |-> CommitPool[i].message,
                       author |-> "dev",
                       date |-> "2025-01-01",
                       body |-> CommitPool[i].body]]

\* The versions an instance starts from.
HistoryVersions == {PackageVersion, <<0, 9, 9>>}

\* The calls of addVersionToHistory that are tried: quickPatch's call
\* (type patch, a description, some commits), interactiveVersion's calls
\* (any type, the prompt's description, possibly no commit or more than ten)
\* and a call that leaves type and description out.
HistoryCalls(current) ==
    {[version |-> semverInc(current, "patch"), type |-> Str("patch"),
      description |-> Str("Patch release"), commits |-> LogOf(2)],
     [version |-> semverInc(current, "minor"), type |-> Str("minor"),
      description |-> Str("1 new feature(s)"), commits |-> LogOf(Len(CommitPool))],
     [version |-> semverInc(current, "major"), type |-> Str("major"),
      description |-> Str(""), commits |-> LogOf(0)],
     [version |-> semverInc(current, "minor"), type |-> Undefined,
      description |-> Undefined, commits |-> LogOf(1)]}

\* At most this many entries are added to the history.
MaxReleases == 2

\* A checkout without .version-history.json and a new VersionManager.
HistoryInit ==
    /\ currentVersion \in HistoryVersions
    /\ fsFiles = [p \in {versionHistoryPath} |-> NoFile]
    /\ fsDirs = {rootDir}
    /\ call = [op |-> "none", arg |-> Undefined, outcome |-> Returned(Undefined)]
    /\ git = Undefined
    /\ proc = Undefined
    /\ commits = <<>>
    /\ categories = Undefined
    /\ suggestion = Undefined
    /\ registry = <<>>
    /\ result = [op |-> "none", category |-> NoArg, template |-> NoArg,
                 targetDir |-> NoArg, outcome |-> Returned(Undefined)]

InitVersionHistory ==
    /\ fsFiles' = initVersionHistoryCall(fsFiles)
    /\ call' = [op |-> "initVersionHistory", arg |-> Undefined,
                outcome |-> Returned(Undefined)]
    /\ UNCHANGED <<registry, fsDirs, result, versionVars, cliVars>>

GetVersionHistory ==
    LET r == getVersionHistoryCall(fsFiles) IN
    /\ fsFiles' = r.files
    /\ call' = [op |-> "getVersionHistory", arg |-> Undefined,
                outcome |-> r.outcome]
    /\ UNCHANGED <<registry, fsDirs, result, versionVars, cliVars>>

AddVersionToHistory(a, io) ==
    /\ fsFiles[versionHistoryPath].exists =>
         Len(Prop(readJson(fsFiles, versionHistoryPath), "versions").v)
           < MaxReleases
    /\ LET r == addVersionToHistoryCall(fsFiles, currentVersion, a.version,
                                        a.type, a.description, a.commits, io)
       IN  /\ fsFiles' = r.files
           /\ call' = [op |-> "addVersionToHistory", arg |-> a,
                       outcome |-> r.outcome]
    /\ UNCHANGED <<registry, fsDirs, result, versionVars, cliVars>>

HistoryNext ==
    \/ InitVersionHistory
    \/ GetVersionHistory
    \/ \E a \in HistoryCalls(currentVersion), io \in {"ok", "writeFails"} :
         AddVersionToHistory(a, io)

HistorySpec == HistoryInit /\ [][HistoryNext]_vars


(***************************************************************************)
(* CHANGELOG.md.  A text is the sequence of its characters, "\n" included. *)
(***************************************************************************)
\* Array.prototype.join
RECURSIVE Join(_, _)
Join(lines, sep) ==
    IF lines = <<>> THEN <<>>
    ELSE IF Len(lines) = 1 THEN lines[1]
    ELSE lines[1] \o sep \o Join(Tail(lines), sep)

IsSpace(c) == c \in {" ", "\n", "\t"}

\* String.prototype.trim
RECURSIVE trimStart(_)
trimStart(s) ==
    IF s # <<>> /\ IsSpace(Head(s)) THEN trimStart(Tail(s)) ELSE s

RECURSIVE trimEnd(_)
trimEnd(s) ==
    IF s # <<>> /\ IsSpace(s[Len(s)])
    THEN trimEnd(SubSeq(s, 1, Len(s) - 1)) ELSE s

trim(s) == trimEnd(trimStart(s))

S_h2 == <<"#", "#", " ">>

\* lines.findIndex(line => line.startsWith('## ')): 0-based, -1 if none
SectionIndex(lines) ==
    IF \E i \in DOMAIN lines : startsWith(lines[i], S_h2)
    THEN (CHOOSE i \in DOMAIN lines :
            /\ startsWith(lines[i], S_h2)
            /\ \A j \in 1 .. i - 1 : ~startsWith(lines[j], S_h2)) - 1
    ELSE -1

\* lines.findIndex(line => line.trim() === ''): 0-based, -1 if none
BlankIndex(lines) ==
    IF \E i \in DOMAIN lines : trim(lines[i]) = <<>>
    THEN (CHOOSE i \in DOMAIN lines :
            /\ trim(lines[i]) = <<>>
            /\ \A j \in 1 .. i - 1 : trim(lines[j]) # <<>>) - 1
    ELSE -1

\* lines.splice(index, 0, item)
splice(lines, index, item) ==
    SubSeq(lines, 1, index) \o <<item>> \o SubSeq(lines, index + 1, Len(lines))

\* The header VersionManager.updateChangelog starts a new file with.
VersionManagerHeader ==
    <<"#", " ", "C", "h", "a", "n", "g", "e", "l", "o", "g", "\n", "\n",
      "A", "l", "l", " ", "n", "o", "t", "a", "b", "l", "e", " ", "c", "h",
      "a", "n", "g", "e", "s", " ", "t", "o", " ", "t", "h", "i", "s", " ",
      "p", "r", "o", "j", "e", "c", "t", " ", "w", "i", "l", "l", " ", "b",
      "e", " ", "d", "o", "c", "u", "m", "e", "n", "t", "e", "d", " ", "i",
      "n", " ", "t", "h", "i", "s", " ", "f", "i", "l", "e", ".", "\n",
      "\n">>

\* The header ReleaseManager.updateChangelog starts a new file with; the
\* repository's CHANGELOG.md begins with the same lines.
ReleaseManagerHeader ==
    <<"#", " ", "C", "h", "a", "n", "g", "e", "l", "o", "g", "\n", "\n",
      "A", "l", "l", " ", "n", "o", "t", "a", "b", "l", "e", " ", "c", "h",
      "a", "n", "g", "e", "s", " ", "t", "o", " ", "t", "h", "i", "s", " ",
      "p", "r", "o", "j", "e", "c", "t", " ", "w", "i", "l", "l", " ", "b",
      "e", " ", "d", "o", "c", "u", "m", "e", "n", "t", "e", "d", " ", "i",
      "n", " ", "t", "h", "i", "s", " ", "f", "i", "l", "e", ".", "\n",
      "\n", "T", "h", "e", " ", "f", "o", "r", "m", "a", "t", " ", "i",
      "s", " ", "b", "a", "s", "e", "d", " ", "o", "n", " ", "[", "K", "e",
      "e", "p", " ", "a", " ", "C", "h", "a", "n", "g", "e", "l", "o", "g",
      "]", "(", "h", "t", "t", "p", "s", ":", "/", "/", "k", "e", "e", "p",
      "a", "c", "h", "a", "n", "g", "e", "l", "o", "g", ".", "c", "o", "m",
      "/", "e", "n", "/", "1", ".", "0", ".", "0", "/", ")", ",", "\n",
      "a", "n", "d", " ", "t", "h", "i", "s", " ", "p", "r", "o", "j", "e",
      "c", "t", " ", "a", "d", "h", "e", "r", "e", "s", " ", "t", "o", " ",
      "[", "S", "e", "m", "a", "n", "t", "i", "c", " ", "V", "e", "r", "s",
      "i", "o", "n", "i", "n", "g", "]", "(", "h", "t", "t", "p", "s", ":",
      "/", "/", "s", "e", "m", "v", "e", "r", ".", "o", "r", "g", "/", "s",
      "p", "e", "c", "/", "v", "2", ".", "0", ".", "0", ".", "h", "t", "m",
      "l", ")", ".", "\n", "\n">>

\* The paths of the ReleaseManager constructor
ReleaseManager_packagePath == PathJoin(ScriptsDirname, Rel(<<"package.json">>))
ReleaseManager_changelogPath == PathJoin(ScriptsDirname, Rel(<<"CHANGELOG.md">>))

\* fs.writeFile; fs.readFile is the content of the file
writeFile(files, p, text) == [files EXCEPT ![p] = File(text)]

\* VersionManager.updateChangelog(newEntry)
updateChangelogCall(files, newEntry) ==
    IF files[changelogPath].exists
    THEN LET changelog == files[changelogPath].content
             lines == Split(changelog, "\n")
             headerEndIndex == SectionIndex(lines)
         IN  writeFile(files, changelogPath,
                       IF headerEndIndex > 0
                       THEN Join(splice(lines, headerEndIndex, newEntry), <<"\n">>)
                       ELSE newEntry \o <<"\n">> \o changelog)
    ELSE writeFile(files, changelogPath, VersionManagerHeader \o newEntry)

\* ReleaseManager.updateChangelog(newEntry)
ReleaseManager_updateChangelogCall(files, newEntry) ==
    LET existingContent ==
          IF files[ReleaseManager_changelogPath].exists
          THEN files[ReleaseManager_changelogPath].content
          ELSE ReleaseManagerHeader
        lines == Split(existingContent, "\n")
        headerEndIndex == BlankIndex(lines) + 1
    IN  writeFile(files, ReleaseManager_changelogPath,
                  Join(splice(lines, headerEndIndex, newEntry), <<"\n">>))

\* The repository's CHANGELOG.md: the header and the section of 1.0.0
\* (its first lines).
RepositoryChangelog ==
    <<"#", " ", "C", "h", "a", "n", "g", "e", "l", "o", "g", "\n", "\n",
      "A", "l", "l", " ", "n", "o", "t", "a", "b", "l", "e", " ", "c", "h",
      "a", "n", "g", "e", "s", " ", "t", "o", " ", "t", "h", "i", "s", " ",
      "p", "r", "o", "j", "e", "c", "t", " ", "w", "i", "l", "l", " ", "b",
      "e", " ", "d", "o", "c", "u", "m", "e", "n", "t", "e", "d", " ", "i",
      "n", " ", "t", "h", "i", "s", " ", "f", "i", "l", "e", ".", "\n",
      "\n", "T", "h", "e", " ", "f", "o", "r", "m", "a", "t", " ", "i",
      "s", " ", "b", "a", "s", "e", "d", " ", "o", "n", " ", "[", "K", "e",
      "e", "p", " ", "a", " ", "C", "h", "a", "n", "g", "e", "l", "o", "g",
      "]", "(", "h", "t", "t", "p", "s", ":", "/", "/", "k", "e", "e", "p",
      "a", "c", "h", "a", "n", "g", "e", "l", "o", "g", ".", "c", "o", "m",
      "/", "e", "n", "/", "1", ".", "0", ".", "0", "/", ")", ",", "\n",
      "a", "n", "d", " ", "t", "h", "i", "s", " ", "p", "r", "o", "j", "e",
      "c", "t", " ", "a", "d", "h", "e", "r", "e", "s", " ", "t", "o", " ",
      "[", "S", "e", "m", "a", "n", "t", "i", "c", " ", "V", "e", "r", "s",
      "i", "o", "n", "i", "n", "g", "]", "(", "h", "t", "t", "p", "s", ":",
      "/", "/", "s", "e", "m", "v", "e", "r", ".", "o", "r", "g", "/", "s",
      "p", "e", "c", "/", "v", "2", ".", "0", ".", "0", ".", "h", "t", "m",
      "l", ")", ".", "\n", "\n", "#", "#", " ", "[", "1", ".", "0", ".",
      "0", "]", " ", "-", " ", "2", "0", "2", "5", "-", "0", "1", "-", "2",
      "8", "\n", "\n", "#", "#", "#", " ", "F", "e", "a", "t", "u", "r",
      "e", "s", "\n", "\n", "-", " ", "I", "n", "i", "t", "i", "a", "l",
      " ", "r", "e", "l", "e", "a", "s", "e", " ", "o", "f", " ", "C", "l",
      "e", "a", "n", " ", "V", "i", "b", "e", " ", "-", " ", "A", " ", "P",
      "R", "D", " ", "g", "e", "n", "e", "r", "a", "t", "o", "r", " ", "f",
      "o", "r", " ", "A", "I", " ", "a", "g", "e", "n", "t", "s", "\n">>

\* A changelog that has its header and no dated section yet.
HeaderOnlyChangelog == ReleaseManagerHeader

\* Entries as generateChangelogEntry makes them: the dated heading alone
\* (no commit falls in a listed section), or with a description and a
\* section.
ChangelogEntries ==
    {
      <<"#", "#", " ", "[", "1", ".", "0", ".", "3", "]", " ", "-", " ",
        "2", "0", "2", "5", "-", "0", "2", "-", "0", "1", "\n", "\n">>,
      <<"#", "#", " ", "[", "1", ".", "1", ".", "0", "]", " ", "-", " ",
        "2", "0", "2", "5", "-", "0", "2", "-", "0", "1", "\n", "\n", "1",
        " ", "n", "e", "w", " ", "f", "e", "a", "t", "u", "r", "e", "(",
        "s", ")", "\n", "\n", "#", "#", "#", " ", "N", "e", "w", " ", "F",
        "e", "a", "t", "u", "r", "e", "s", "\n", "\n", "-", " ", "a", "d",
        "d", " ", "l", "o", "g", "i", "n", " ", "(", "[", "1", "]", "(",
        ".", ".", "/", ".", ".", "/", "c", "o", "m", "m", "i", "t", "/",
        "1", ")", ")", "\n", "\n">>
    }

\* What a changelog file is at the start: absent, header only, or the
\* repository's.
ChangelogFiles == {NoFile, File(HeaderOnlyChangelog), File(RepositoryChangelog)}

\* A changelog gets at most this many dated sections.
MaxSections == 2

\* The number of lines of a text that start a dated section.
SectionCount(text) ==
    Cardinality({i \in DOMAIN Split(text, "\n") :
                   startsWith(Split(text, "\n")[i], S_h2)})

ChangelogInit ==
    /\ \E root \in ChangelogFiles, scripts \in ChangelogFiles :
         fsFiles = [p \in {changelogPath, ReleaseManager_changelogPath} |->
                      IF p = changelogPath THEN root ELSE scripts]
    /\ fsDirs = {rootDir, ScriptsDirname}
    /\ call = [op |-> "none", arg |-> Undefined, outcome |-> Returned(Undefined)]
    /\ git = Undefined
    /\ proc = Undefined
    /\ currentVersion = PackageVersion
    /\ commits = <<>>
    /\ categories = Undefined
    /\ suggestion = Undefined
    /\ registry = <<>>
    /\ result = [op |-> "none", category |-> NoArg, template |-> NoArg,
                 targetDir |-> NoArg, outcome |-> Returned(Undefined)]

VersionManagerUpdateChangelog(newEntry) ==
    /\ fsFiles[changelogPath].exists =>
         SectionCount(fsFiles[changelogPath].content) < MaxSections
    /\ fsFiles' = updateChangelogCall(fsFiles, newEntry)
    /\ call' = [op |-> "VersionManager.updateChangelog", arg |-> newEntry,
                outcome |-> Returned(Undefined)]
    /\ UNCHANGED <<registry, fsDirs, result, versionVars, cliVars>>

ReleaseManagerUpdateChangelog(newEntry) ==
    /\ fsFiles[ReleaseManager_changelogPath].exists =>
         SectionCount(fsFiles[ReleaseManager_changelogPath].content) < MaxSections
    /\ fsFiles' = ReleaseManager_updateChangelogCall(fsFiles, newEntry)
    /\ call' = [op |-> "ReleaseManager.updateChangelog", arg |-> newEntry,
                outcome |-> Returned(Undefined)]
    /\ UNCHANGED <<registry, fsDirs, result, versionVars, cliVars>>

ChangelogNext ==
    \/ \E e \in ChangelogEntries : VersionManagerUpdateChangelog(e)
    \/ \E e \in ChangelogEntries : ReleaseManagerUpdateChangelog(e)

ChangelogSpec == ChangelogInit /\ [][ChangelogNext]_vars


(***************************************************************************)
(* Changelog entries.  The pictographs of the section titles and of the    *)
(* list items are left out of the texts.                                   *)
(***************************************************************************)
\* new Date().toISOString().split('T')[0]: some day
Today == <<"2", "0", "2", "5", "-", "0", "2", "-", "0", "1">>

\* The prefixes /^(feat|fix|docs|style|refactor|test|chore|perf|security):\s*/i
\* removes from a subject.
CleanedPrefixes ==
    <<S_feat, S_fix, S_docs, S_style, S_refactor, S_test, S_chore, S_perf,
      S_security>>

\* commit.message.replace(/^(feat|...|security):\s*/i, '')
cleanMessage(message) ==
    LET lower == toLowerCase(message)
        hit == {i \in DOMAIN CleanedPrefixes :
                  startsWith(lower, CleanedPrefixes[i] \o <<":">>)}
    IN  IF hit = {} THEN message
        ELSE \* the regular expression takes the first alternative that matches
             LET i == CHOOSE k \in hit : \A j \in hit : k <= j
             IN  trimStart(SubSeq(message, Len(CleanedPrefixes[i]) + 2,
                                  Len(message)))

\* "([hash](../../commit/hash))"
CommitLink(hash) ==
    <<"(", "[">> \o NumberToString(hash) \o <<"]", "(", ".", ".", "/", ".", ".", "/", "c", "o", "m", "m", "i", "t", "/">>
      \o NumberToString(hash) \o <<")", ")">>

\* The sections of VersionManager.generateChangelogEntry in their order:
\* title and bucket.
VersionManagerSections ==
    <<[title |-> <<"B", "R", "E", "A", "K", "I", "N", "G", " ", "C", "H", "A", "N", "G", "E", "S">>, bucket |-> "breaking"],
      [title |-> <<"N", "e", "w", " ", "F", "e", "a", "t", "u", "r", "e", "s">>, bucket |-> "features"],
      [title |-> <<"B", "u", "g", " ", "F", "i", "x", "e", "s">>, bucket |-> "fixes"],
      [title |-> <<"S", "e", "c", "u", "r", "i", "t", "y">>, bucket |-> "security"],
      [title |-> <<"P", "e", "r", "f", "o", "r", "m", "a", "n", "c", "e">>, bucket |-> "performance"],
      [title |-> <<"D", "o", "c", "u", "m", "e", "n", "t", "a", "t", "i", "o", "n">>, bucket |-> "docs"],
      [title |-> <<"C", "o", "d", "e", " ", "R", "e", "f", "a", "c", "t", "o", "r", "i", "n", "g">>, bucket |-> "refactor"],
      [title |-> <<"T", "e", "s", "t", "s">>, bucket |-> "test"],
      [title |-> <<"S", "t", "y", "l", "i", "n", "g">>, bucket |-> "style"],
      [title |-> <<"M", "a", "i", "n", "t", "e", "n", "a", "n", "c", "e">>, bucket |-> "chore"]>>

\* The list items of one section of VersionManager's entry
RECURSIVE CleanedItems(_)
CleanedItems(items) ==
    IF items = <<>> THEN <<>>
    ELSE <<"-", " ">> \o cleanMessage(Head(items).message) \o <<" ">>
           \o CommitLink(Head(items).hash) \o <<"\n">>
           \o CleanedItems(Tail(items))

RECURSIVE SectionsText(_, _)
SectionsText(sections, cats) ==
    IF sections = <<>> THEN <<>>
    ELSE (IF Len(cats[Head(sections).bucket]) > 0
          THEN <<"#", "#", "#", " ">> \o Head(sections).title \o <<"\n", "\n">>
                 \o CleanedItems(cats[Head(sections).bucket]) \o <<"\n">>
          ELSE <<>>)
           \o SectionsText(Tail(sections), cats)

\* VersionManager.generateChangelogEntry(version, categories, description);
\* an empty description is left out.
generateChangelogEntry(version, cats, description) ==
    <<"#", "#", " ", "[">> \o version \o <<"]", " ", "-", " ">> \o Today \o <<"\n", "\n">>
      \o (IF description # <<>> THEN description \o <<"\n", "\n">> ELSE <<>>)
      \o SectionsText(VersionManagerSections, cats)

\* The buckets of ReleaseManager.categorizeCommits
ReleaseManager_CategoryNames ==
    <<"breaking", "features", "fixes", "docs", "style", "refactor", "test",
      "chore", "other">>

\* The branch of ReleaseManager.categorizeCommits a commit takes; release.js
\* reads no commit body.
ReleaseManager_BucketOf(commit) ==
    LET message == toLowerCase(commit.message) IN
    IF includes(message, S_breaking) \/ includes(message, S_breaking_change)
    THEN "breaking"
    ELSE IF startsWith(message, S_feat) \/ startsWith(message, S_feature)
    THEN "features"
    ELSE IF startsWith(message, S_fix) THEN "fixes"
    ELSE IF startsWith(message, S_docs) THEN "docs"
    ELSE IF startsWith(message, S_style) THEN "style"
    ELSE IF startsWith(message, S_refactor) THEN "refactor"
    ELSE IF startsWith(message, S_test) THEN "test"
    ELSE IF startsWith(message, S_chore) THEN "chore"
    ELSE "other"

RECURSIVE ReleaseManager_CategorizeFrom(_, _, _)
ReleaseManager_CategorizeFrom(cats, cs, i) ==
    IF i > Len(cs) THEN cats
    ELSE ReleaseManager_CategorizeFrom(
           [cats EXCEPT ![ReleaseManager_BucketOf(cs[i])] = Append(@, cs[i])],
           cs, i + 1)

ReleaseManager_categorizeCommits(cs) ==
    ReleaseManager_CategorizeFrom(
      [b \in Range(ReleaseManager_CategoryNames) |-> <<>>], cs, 1)

\* The list items of one section of ReleaseManager's entry
RECURSIVE PlainItems(_)
PlainItems(items) ==
    IF items = <<>> THEN <<>>
    ELSE <<"-", " ">> \o Head(items).message \o <<" ">>
           \o CommitLink(Head(items).hash) \o <<"\n">>
           \o PlainItems(Tail(items))

\* One section of ReleaseManager's entry: left out when it has no item
PlainSection(title, items) ==
    IF Len(items) > 0
    THEN <<"#", "#", "#", " ">> \o title \o <<"\n", "\n">> \o PlainItems(items) \o <<"\n">>
    ELSE <<>>

\* ReleaseManager.generateChangelogEntry(version, categories)
ReleaseManager_generateChangelogEntry(version, cats) ==
    <<"#", "#", " ", "[">> \o version \o <<"]", " ", "-", " ">> \o Today \o <<"\n", "\n">>
      \o PlainSection(<<"B", "R", "E", "A", "K", "I", "N", "G", " ", "C", "H", "A", "N", "G", "E", "S">>, cats.breaking)
      \o PlainSection(<<"F", "e", "a", "t", "u", "r", "e", "s">>, cats.features)
      \o PlainSection(<<"B", "u", "g", " ", "F", "i", "x", "e", "s">>, cats.fixes)
      \o PlainSection(<<"D", "o", "c", "u", "m", "e", "n", "t", "a", "t", "i", "o", "n">>, cats.docs)
      \o PlainSection(<<"C", "o", "d", "e", " ", "R", "e", "f", "a", "c", "t", "o", "r", "i", "n", "g">>, cats.refactor)
      \o PlainSection(<<"T", "e", "s", "t", "s">>, cats.test)
      \o PlainSection(<<"M", "a", "i", "n", "t", "e", "n", "a", "n", "c", "e">>, cats.chore \o cats.style \o cats.other)


(***************************************************************************)
(* The scripts as processes.  A run of a script is a sequence of steps;    *)
(* a step is the code up to the next point where the script waits: for a   *)
(* subprocess (git, npm), for the file system or for an answer of the      *)
(* user.  proc.ran lists the steps started and whether they succeeded,     *)
(* proc.out the messages printed.                                          *)
(***************************************************************************)
\* semver's parse of the text x.y.z
ParseVersion(text) ==
    LET parts == Split(text, ".") IN
    <<StringToNumber(parts[1]), StringToNumber(parts[2]),
      StringToNumber(parts[3])>>

\* package.json as the scripts need it
PackageJson(version) ==
    Obj(<<[key |-> "name", value |-> Str("@thrilled/clean-vibe")],
          [key |-> "version", value |-> Str(VersionString(version))]>>)

\* No script is running.
IdleProcess ==
    [script |-> "none", command |-> "none", pc |-> "idle", exit |-> -1,
     out |-> <<>>, ran |-> <<>>, type |-> "none", newVersion |-> <<>>,
     description |-> <<>>, entry |-> <<>>, push |-> FALSE, step |-> 0]

Say(p, text) == [p EXCEPT !.out = Append(@, text)]
Ran(p, step, ok) == [p EXCEPT !.ran = Append(@, [step |-> step, ok |-> ok])]
Goto(p, pc) == [p EXCEPT !.pc = pc]
\* The script ends: by process.exit(code), or by main() returning (0) or
\* rejecting (the catch of main prints the error and exits with 1).
Exit(p, code) == [p EXCEPT !.pc = "exited", !.exit = code]

\* suggestion.reasoning as text
ReasonText(reason) ==
    CASE reason.what = "breaking change(s)" ->
           NumberToString(reason.n) \o <<" ", "b", "r", "e", "a", "k", "i", "n", "g", " ", "c", "h", "a", "n", "g", "e", "(", "s", ")">>
      [] reason.what = "new feature(s)" ->
           NumberToString(reason.n) \o <<" ", "n", "e", "w", " ", "f", "e", "a", "t", "u", "r", "e", "(", "s", ")">>
      [] reason.what = "bug fix(es)" ->
           NumberToString(reason.n) \o <<" ", "b", "u", "g", " ", "f", "i", "x", "(", "e", "s", ")">>
      [] OTHER -> <<"M", "i", "n", "o", "r", " ", "c", "h", "a", "n", "g", "e", "s", " ", "a", "n", "d", " ", "i", "m", "p", "r", "o", "v", "e", "m", "e", "n", "t", "s">>

ReasoningText(reasons) ==
    Join([i \in DOMAIN reasons |-> ReasonText(reasons[i])], <<",", " ">>)

\* What the user types as a description.
TypedDescription == <<"F", "i", "x", " ", "c", "r", "i", "t", "i", "c", "a", "l", " ", "b", "u", "g">>

\* node scripts/version-manager.js <command>: the constructor loads
\* package.json and keeps its version as this.currentVersion.
VM_main(command) ==
    /\ proc.pc = "idle"
    /\ currentVersion' =
         ParseVersion(Prop(readJson(fsFiles, packagePath), "version").v)
    /\ proc' = [proc EXCEPT
                  !.script = "version-manager",
                  !.command = command,
                  !.pc = CASE command = "status" -> "getVersionHistory"
                           [] command = "suggest" -> "suggestNextVersion"
                           [] command = "patch" -> "quickPatch"
                           [] command = "bump" -> "interactiveVersion"]
    /\ UNCHANGED <<registryVars, commits, categories, suggestion, call, git>>

\* displayVersionStatus, first line: getVersionHistory, which creates
\* .version-history.json when the file does not exist.
VM_getVersionHistory(io) ==
    /\ proc.script = "version-manager" /\ proc.pc = "getVersionHistory"
    /\ IF io = "ok"
       THEN /\ fsFiles' = getVersionHistoryCall(fsFiles).files
            /\ proc' = Goto(IF fsFiles[versionHistoryPath].exists THEN proc
                            ELSE Say(Ran(proc, "write .version-history.json", TRUE),
                                     "Version history initialized"),
                            "suggestNextVersion")
       ELSE /\ ~fsFiles[versionHistoryPath].exists
            /\ fsFiles' = fsFiles
            /\ proc' = Exit(Say(Ran(proc, "write .version-history.json", FALSE),
                                "Version management failed: EACCES: permission denied"),
                            1)
    /\ UNCHANGED <<registry, fsDirs, result, versionVars, call, git>>

\* suggestNextVersion of the suggest and status commands, and what the
\* command prints after it.  Without a repository both git log calls of
\* getCommitsSinceLastTag fail and main() rejects.
VM_suggestNextVersion ==
    /\ proc.script = "version-manager" /\ proc.pc = "suggestNextVersion"
    /\ IF git.repo
       THEN /\ categories' = [t |-> "categories",
                              buckets |-> categorizeCommits(commits)]
            /\ suggestion' = [t |-> "suggestion",
                              value |-> suggestNextVersionCall(currentVersion,
                                                               commits)]
            /\ proc' = Exit(Say(Ran(proc, "git log", TRUE),
                                IF proc.command = "suggest"
                                THEN "Suggested next version"
                                ELSE "Version Status Dashboard"),
                            0)
       ELSE /\ UNCHANGED <<categories, suggestion>>
            /\ proc' = Exit(Say(Ran(proc, "git log", FALSE),
                                "Version management failed: Command failed: git log"),
                            1)
    /\ UNCHANGED <<registryVars, commits, currentVersion, call, git>>

\* Mutant of NoCommitsFound: the check never holds.
NoCommitsFound_Never(cs) == FALSE

\* interactiveVersion's check commits.length === 0
NoCommitsFound(cs) == Len(cs) = 0

\* interactiveVersion up to its first prompt: suggestNextVersion,
\* getCommitsSinceLastTag and the check for zero commits.
VM_interactiveVersion ==
    /\ proc.script = "version-manager" /\ proc.pc = "interactiveVersion"
    /\ IF ~git.repo
       THEN /\ UNCHANGED <<categories, suggestion>>
            /\ proc' = Exit(Say(Ran(proc, "git log", FALSE),
                                "Version management failed: Command failed: git log"),
                            1)
       ELSE /\ categories' = [t |-> "categories",
                              buckets |-> categorizeCommits(commits)]
            /\ suggestion' = [t |-> "suggestion",
                              value |-> suggestNextVersionCall(currentVersion,
                                                               commits)]
            /\ proc' = IF NoCommitsFound(commits)
                       THEN Exit(Say(Ran(proc, "git log", TRUE),
                                     "No commits found since last tag. Nothing to release."),
                                 0)
                       ELSE Goto(Ran(proc, "git log", TRUE), "promptVersionType")
    /\ UNCHANGED <<registryVars, commits, currentVersion, call, git>>

\* The prompt "What type of version bump?"; the fourth choice, the smart
\* suggestion, has the suggested type as its value.
VM_promptVersionType(versionType) ==
    /\ proc.script = "version-manager" /\ proc.pc = "promptVersionType"
    /\ proc' = Goto([Ran(proc, "prompt versionType", TRUE) EXCEPT
                       !.type = versionType,
                       !.newVersion = getNextVersion(currentVersion, versionType)],
                    "promptDescription")
    /\ UNCHANGED <<registryVars, versionVars, call, git>>

\* The prompt "Release description (optional)": an empty answer gives the
\* default, suggestion.reasoning.
VM_promptDescription(typed) ==
    /\ proc.script = "version-manager" /\ proc.pc = "promptDescription"
    /\ proc' = Goto([Ran(proc, "prompt description", TRUE) EXCEPT
                       !.description =
                          IF typed = <<>>
                          THEN ReasoningText(suggestion.value.reasoning)
                          ELSE typed],
                    "promptConfirm")
    /\ UNCHANGED <<registryVars, versionVars, call, git>>

\* The prompt "Create <type> release v<version>?"
VM_promptConfirm(confirm) ==
    /\ proc.script = "version-manager" /\ proc.pc = "promptConfirm"
    /\ proc' = IF confirm
               THEN Goto(Ran(proc, "prompt confirm", TRUE), "updatePackageVersion")
               ELSE Exit(Say(Ran(proc, "prompt confirm", TRUE), "Release cancelled."), 0)
    /\ UNCHANGED <<registryVars, versionVars, call, git>>

\* Mutant of VM_quickPatch: a failing git log yields no commits.
VM_quickPatch_IgnoringLog(description) ==
    /\ proc.script = "version-manager" /\ proc.pc = "quickPatch"
    /\ proc' = Goto([Ran(proc, "git log", git.repo) EXCEPT
                       !.type = "patch",
                       !.newVersion = getNextVersion(currentVersion, "patch"),
                       !.description = description],
                    "updatePackageVersion")
    /\ UNCHANGED <<registryVars, versionVars, call, git>>

\* quickPatch(description) up to its first write: getNextVersion('patch')
\* and getCommitsSinceLastTag.
VM_quickPatch(description) ==
    /\ proc.script = "version-manager" /\ proc.pc = "quickPatch"
    /\ proc' = IF git.repo
               THEN Goto(Say([Ran(proc, "git log", TRUE) EXCEPT
                                !.type = "patch",
                                !.newVersion = getNextVersion(currentVersion, "patch"),
                                !.description = description],
                             "Creating quick patch"),
                         "updatePackageVersion")
               ELSE Exit(Say(Ran(proc, "git log", FALSE),
                             "Version management failed: Command failed: git log"),
                         1)
    /\ UNCHANGED <<registryVars, versionVars, call, git>>

\* updatePackageVersion(newVersion): the package data loaded by the
\* constructor is written back with the new version.
VM_updatePackageVersion(io) ==
    /\ proc.script = "version-manager" /\ proc.pc = "updatePackageVersion"
    /\ IF io = "ok"
       THEN /\ fsFiles' = writeJson(fsFiles, packagePath,
                                    SetProp(readJson(fsFiles, packagePath),
                                            "version",
                                            Str(VersionString(proc.newVersion))))
            /\ proc' = Goto(Say(Ran(proc, "write package.json", TRUE),
                                "Updated package.json version"),
                            "updateChangelog")
       ELSE /\ fsFiles' = fsFiles
            /\ proc' = Exit(Say(Ran(proc, "write package.json", FALSE),
                                "Version management failed: EACCES: permission denied"),
                            1)
    /\ UNCHANGED <<registry, fsDirs, result, versionVars, call, git>>

\* Mutant of VM_updateChangelog: a rejected write is not awaited and the flow
\* goes on.
VM_updateChangelog_ContinueOnFailure(io) ==
    /\ proc.script = "version-manager" /\ proc.pc = "updateChangelog"
    /\ fsFiles' = IF io = "ok"
                  THEN updateChangelogCall(
                         fsFiles,
                         generateChangelogEntry(VersionString(proc.newVersion),
                                                categorizeCommits(commits),
                                                proc.description))
                  ELSE fsFiles
    /\ proc' = Goto(Ran(proc, "write CHANGELOG.md", io = "ok"),
                    "addVersionToHistory")
    /\ UNCHANGED <<registry, fsDirs, result, versionVars, call, git>>

\* updateChangelog(generateChangelogEntry(newVersion, categories, description))
VM_updateChangelog(io) ==
    /\ proc.script = "version-manager" /\ proc.pc = "updateChangelog"
    /\ LET entry == generateChangelogEntry(VersionString(proc.newVersion),
                                           categorizeCommits(commits),
                                           proc.description)
       IN  IF io = "ok"
           THEN /\ fsFiles' = updateChangelogCall(fsFiles, entry)
                /\ proc' = Goto(Say([Ran(proc, "write CHANGELOG.md", TRUE)
                                       EXCEPT !.entry = entry],
                                    "Updated CHANGELOG.md"),
                                "addVersionToHistory")
           ELSE /\ fsFiles' = fsFiles
                /\ proc' = Exit(Say(Ran(proc, "write CHANGELOG.md", FALSE),
                                    "Version management failed: EACCES: permission denied"),
                                1)
    /\ UNCHANGED <<registry, fsDirs, result, versionVars, call, git>>

\* addVersionToHistory(newVersion, type, description, commits); quickPatch
\* passes description || 'Patch release'.
VM_addVersionToHistory(io) ==
    /\ proc.script = "version-manager" /\ proc.pc = "addVersionToHistory"
    /\ LET description ==
             IF proc.command = "patch" /\ proc.description = <<>>
             THEN <<"P", "a", "t", "c", "h", " ", "r", "e", "l", "e", "a", "s", "e">> ELSE proc.description
           r == addVersionToHistoryCall(fsFiles, currentVersion,
                                        proc.newVersion, Str(proc.type),
                                        Str(description), commits, io)
       IN  /\ fsFiles' = r.files
           /\ proc' = IF r.outcome.status = "returned"
                      THEN Goto(Ran(proc, "write .version-history.json", TRUE),
                                "git add")
                      ELSE Exit(Say(Ran(proc, "write .version-history.json", FALSE),
                                    "Version management failed: EACCES: permission denied"),
                                1)
    /\ UNCHANGED <<registry, fsDirs, result, versionVars, call, git>>

\* createGitTag: git add, git commit and git tag in one try block; the
\* catch prints the error and createGitTag returns false, after which
\* quickPatch returns false, interactiveVersion returns, and main() ends.
VM_gitAdd(ok) ==
    /\ proc.script = "version-manager" /\ proc.pc = "git add"
    /\ proc' = IF ok THEN Goto(Ran(proc, "git add", TRUE), "git commit")
               ELSE Exit(Say(Ran(proc, "git add", FALSE),
                             "Failed to create git tag: Command failed: git add"),
                         0)
    /\ UNCHANGED <<registryVars, versionVars, call, git>>

VM_gitCommit(ok) ==
    /\ proc.script = "version-manager" /\ proc.pc = "git commit"
    /\ IF ok
       THEN /\ git' = [git EXCEPT !.commits = Append(@, proc.newVersion)]
            /\ proc' = Goto(Ran(proc, "git commit", TRUE), "git tag")
       ELSE /\ git' = git
            /\ proc' = Exit(Say(Ran(proc, "git commit", FALSE),
                                "Failed to create git tag: Command failed: git commit"),
                            0)
    /\ UNCHANGED <<registryVars, versionVars, call>>

\* Mutant of VM_gitTag: after a failed git tag package.json gets its old
\* version back.
VM_gitTag_Reverting(ok) ==
    /\ proc.script = "version-manager" /\ proc.pc = "git tag"
    /\ IF ok
       THEN /\ git' = [git EXCEPT !.tags = @ \cup {proc.newVersion}]
            /\ fsFiles' = fsFiles
            /\ proc' = Exit(Say(Ran(proc, "git tag", TRUE), "Created git tag"), 0)
       ELSE /\ git' = git
            /\ fsFiles' = writeJson(fsFiles, packagePath,
                                    SetProp(readJson(fsFiles, packagePath),
                                            "version",
                                            Str(VersionString(currentVersion))))
            /\ proc' = Exit(Say(Ran(proc, "git tag", FALSE),
                                "Failed to create git tag: Command failed: git tag"),
                            0)
    /\ UNCHANGED <<registry, fsDirs, result, versionVars, call>>

VM_gitTag(ok) ==
    /\ proc.script = "version-manager" /\ proc.pc = "git tag"
    /\ IF ok
       THEN /\ git' = [git EXCEPT !.tags = @ \cup {proc.newVersion}]
            /\ proc' = Exit(Say(Say(Ran(proc, "git tag", TRUE), "Created git tag"),
                                IF proc.command = "patch"
                                THEN "Patch created successfully!"
                                ELSE "Release created successfully!"),
                            0)
       ELSE /\ git' = git
            /\ proc' = Exit(Say(Ran(proc, "git tag", FALSE),
                                "Failed to create git tag: Command failed: git tag"),
                            0)
    /\ UNCHANGED <<registryVars, versionVars, call>>


\* ReleaseManager.getCommitsSinceLastTag reads hash, subject, author and
\* date; it reads no body.
ReleaseManager_commitsOf(cs) ==
    [i \in DOMAIN cs |-> [hash |-> cs[i].hash, message |-> cs[i].message,
                          author |-> cs[i].author, date |-> cs[i].date]]

\* generateChangelogEntry(newVersion, categorizeCommits(commits)) of
\* release.js
ReleaseManager_entryOf(newVersion, cs) ==
    ReleaseManager_generateChangelogEntry(
      VersionString(newVersion),
      ReleaseManager_categorizeCommits(ReleaseManager_commitsOf(cs)))

\* node scripts/release.js [patch|minor|major]: the constructor requires
\* ./package.json, the file next to the script; main() rejects when the
\* file does not exist.  A quick release computes the version first.
RM_main(command) ==
    /\ proc.pc = "idle"
    /\ IF fsFiles[ReleaseManager_packagePath].exists
       THEN LET current ==
                  Prop(readJson(fsFiles, ReleaseManager_packagePath), "version").v
                started == [proc EXCEPT !.script = "release",
                                        !.command = command]
            IN  /\ currentVersion' = ParseVersion(current)
                /\ proc' =
                     IF command = "release"
                     THEN Goto(started, "git status")
                     ELSE Goto([started EXCEPT
                                  !.type = command,
                                  !.newVersion =
                                     ParseVersion(ReleaseManager_getNextVersion(
                                                    current, command).value)],
                               "promptConfirm")
       ELSE /\ currentVersion' = currentVersion
            /\ proc' = Exit(Say([proc EXCEPT !.script = "release",
                                             !.command = command],
                                "Release failed: Cannot find module './package.json'"),
                            1)
    /\ UNCHANGED <<registryVars, commits, categories, suggestion, call, git>>

\* release(): git status, then git status --porcelain.
RM_gitStatus(porcelain) ==
    /\ proc.script = "release" /\ proc.pc = "git status"
    /\ proc' = IF ~git.repo
               THEN Exit(Say(Ran(proc, "git status", FALSE),
                             "Not in a git repository"), 1)
               ELSE IF ~porcelain
               THEN Exit(Say(Ran(Ran(proc, "git status", TRUE),
                                 "git status --porcelain", FALSE),
                             "Could not check git status"), 1)
               ELSE Goto(Ran(Ran(proc, "git status", TRUE),
                             "git status --porcelain", TRUE),
                         IF git.dirty THEN "promptContinue"
                         ELSE "promptReleaseType")
    /\ UNCHANGED <<registryVars, versionVars, call, git>>

\* The prompt "Do you want to continue? (changes will be included in
\* release)"
RM_promptContinue(continueWithChanges) ==
    /\ proc.script = "release" /\ proc.pc = "promptContinue"
    /\ proc' = IF continueWithChanges
               THEN Goto(Ran(proc, "prompt continueWithChanges", TRUE),
                         "promptReleaseType")
               ELSE Exit(Say(Ran(proc, "prompt continueWithChanges", TRUE),
                             "Please commit your changes and try again."), 0)
    /\ UNCHANGED <<registryVars, versionVars, call, git>>

\* The prompt "What type of release is this?", the commits since the last
\* tag and the preview of the changelog entry.
RM_promptReleaseType(releaseType) ==
    /\ proc.script = "release" /\ proc.pc = "promptReleaseType"
    /\ LET newVersion ==
             ParseVersion(ReleaseManager_getNextVersion(
                            VersionString(currentVersion), releaseType).value)
       IN  proc' = Goto(Say([Ran(Ran(proc, "prompt releaseType", TRUE),
                                 "git log", TRUE)
                               EXCEPT !.type = releaseType,
                                      !.newVersion = newVersion,
                                      !.entry = ReleaseManager_entryOf(newVersion,
                                                                       commits)],
                            "Changelog preview"),
                        "promptConfirm")
    /\ UNCHANGED <<registryVars, versionVars, call, git>>

\* Mutant of RM_promptConfirm: the code is formatted before the answer is
\* looked at.
RM_promptConfirm_Formatting(confirm) ==
    /\ proc.script = "release" /\ proc.pc = "promptConfirm"
    /\ LET asked == Ran(Ran(proc, "prompt confirm", TRUE), "npm run format", TRUE) IN
       proc' = IF ~confirm
               THEN Exit(Say(asked, "Release cancelled."), 0)
               ELSE Goto(asked, "runTests")
    /\ UNCHANGED <<registryVars, versionVars, call, git>>

\* The prompt "Create release v<version>?"; the quick release reads the
\* commits after it, and main() rejects when git log fails.
RM_promptConfirm(confirm) ==
    /\ proc.script = "release" /\ proc.pc = "promptConfirm"
    /\ LET asked == Ran(proc, "prompt confirm", TRUE) IN
       proc' = IF ~confirm
               THEN Exit(Say(asked, "Release cancelled."), 0)
               ELSE IF proc.command = "release"
               THEN Goto(asked, "formatCode")
               ELSE IF git.repo
               THEN Goto([Ran(asked, "git log", TRUE) EXCEPT
                            !.entry = ReleaseManager_entryOf(proc.newVersion,
                                                             commits)],
                         "formatCode")
               ELSE Exit(Say(Ran(asked, "git log", FALSE),
                             "Release failed: Command failed: git log"), 1)
    /\ UNCHANGED <<registryVars, versionVars, call, git>>

\* formatCode: npm run format; a failure is printed and formatCode returns
\* true all the same.
RM_formatCode(ok) ==
    /\ proc.script = "release" /\ proc.pc = "formatCode"
    /\ proc' = Goto(Say(Ran(proc, "npm run format", ok),
                        IF ok THEN "Code formatted"
                        ELSE "Code formatting failed (continuing anyway)"),
                    "runTests")
    /\ UNCHANGED <<registryVars, versionVars, call, git>>

\* runTests: npm test; on a failure both flows call process.exit(1).
RM_runTests(ok) ==
    /\ proc.script = "release" /\ proc.pc = "runTests"
    /\ proc' = IF ok
               THEN Goto(Say(Ran(proc, "npm test", TRUE), "Tests passed"),
                         "updatePackageVersion")
               ELSE Exit(Say(Ran(proc, "npm test", FALSE), "Tests failed"), 1)
    /\ UNCHANGED <<registryVars, versionVars, call, git>>

\* ReleaseManager.updatePackageVersion: the file next to the script is read
\* again and written with the new version.
RM_updatePackageVersion(io) ==
    /\ proc.script = "release" /\ proc.pc = "updatePackageVersion"
    /\ IF io = "ok"
       THEN /\ fsFiles' = writeJson(fsFiles, ReleaseManager_packagePath,
                                    SetProp(readJson(fsFiles,
                                                     ReleaseManager_packagePath),
                                            "version",
                                            Str(VersionString(proc.newVersion))))
            /\ proc' = Goto(Ran(proc, "write package.json", TRUE),
                            "updateChangelog")
       ELSE /\ fsFiles' = fsFiles
            /\ proc' = Exit(Say(Ran(proc, "write package.json", FALSE),
                                "Release failed: EACCES: permission denied"), 1)
    /\ UNCHANGED <<registry, fsDirs, result, versionVars, call, git>>

\* ReleaseManager.updateChangelog(changelogEntry); the interactive flow asks
\* about the push next, the quick release pushes without asking.
RM_updateChangelog(io) ==
    /\ proc.script = "release" /\ proc.pc = "updateChangelog"
    /\ IF io = "ok"
       THEN /\ fsFiles' = ReleaseManager_updateChangelogCall(fsFiles, proc.entry)
            /\ proc' = IF proc.command = "release"
                       THEN Goto(Say(Ran(proc, "write CHANGELOG.md", TRUE),
                                     "Changelog updated"),
                                 "promptPush")
                       ELSE Goto(Say([Ran(proc, "write CHANGELOG.md", TRUE)
                                        EXCEPT !.push = TRUE],
                                     "Changelog updated"),
                                 "git add")
       ELSE /\ fsFiles' = fsFiles
            /\ proc' = Exit(Say(Ran(proc, "write CHANGELOG.md", FALSE),
                                "Release failed: EACCES: permission denied"), 1)
    /\ UNCHANGED <<registry, fsDirs, result, versionVars, call, git>>

\* The prompt "Push changes to remote repository?"
RM_promptPush(pushToRemote) ==
    /\ proc.script = "release" /\ proc.pc = "promptPush"
    /\ proc' = Goto([Ran(proc, "prompt pushToRemote", TRUE)
                       EXCEPT !.push = pushToRemote],
                    "git add")
    /\ UNCHANGED <<registryVars, versionVars, call, git>>

\* Mutant of RM_gitFailed: after a failed git add, commit or tag the push is
\* tried all the same.
RM_gitFailed_SkipToPush(p, step) ==
    IF step = "git push"
    THEN Exit(Say(Ran(p, step, FALSE), "Git operations failed"), 0)
    ELSE Goto(Say(Ran(p, step, FALSE), "Git operations failed"), "git push")

\* The catch of commitAndTag: it prints the error and returns false;
\* release() then calls process.exit(1), the quick release returns.
RM_gitFailed(p, step) ==
    LET failed == Say(Ran(p, step, FALSE), "Git operations failed") IN
    IF p.command = "release"
    THEN Exit(Say(failed, "Release failed during git operations."), 1)
    ELSE Exit(failed, 0)

\* The end of commitAndTag when every command has succeeded.
RM_gitDone(p) ==
    Exit(Say(Say(p, "Release committed and tagged"),
             IF p.command = "release" THEN "Release completed successfully!"
             ELSE "Quick release completed!"),
         0)

\* commitAndTag: git add ., git commit, git tag and, unless skipPush,
\* git push origin main --tags, in one try block.
RM_gitAdd(ok) ==
    /\ proc.script = "release" /\ proc.pc = "git add"
    /\ proc' = IF ok THEN Goto(Ran(proc, "git add", TRUE), "git commit")
               ELSE RM_gitFailed(proc, "git add")
    /\ UNCHANGED <<registryVars, versionVars, call, git>>

RM_gitCommit(ok) ==
    /\ proc.script = "release" /\ proc.pc = "git commit"
    /\ IF ok
       THEN /\ git' = [git EXCEPT !.commits = Append(@, proc.newVersion)]
            /\ proc' = Goto(Ran(proc, "git commit", TRUE), "git tag")
       ELSE /\ git' = git
            /\ proc' = RM_gitFailed(proc, "git commit")
    /\ UNCHANGED <<registryVars, versionVars, call>>

\* Mutant of RM_gitTag: skipPush is not looked at.
RM_gitTag_AlwaysPushing(ok) ==
    /\ proc.script = "release" /\ proc.pc = "git tag"
    /\ IF ok
       THEN /\ git' = [git EXCEPT !.tags = @ \cup {proc.newVersion}]
            /\ proc' = Goto(Ran(proc, "git tag", TRUE), "git push")
       ELSE /\ git' = git
            /\ proc' = RM_gitFailed(proc, "git tag")
    /\ UNCHANGED <<registryVars, versionVars, call>>

RM_gitTag(ok) ==
    /\ proc.script = "release" /\ proc.pc = "git tag"
    /\ IF ok
       THEN /\ git' = [git EXCEPT !.tags = @ \cup {proc.newVersion}]
            /\ proc' = IF proc.push
                       THEN Goto(Ran(proc, "git tag", TRUE), "git push")
                       ELSE RM_gitDone(Ran(proc, "git tag", TRUE))
       ELSE /\ git' = git
            /\ proc' = RM_gitFailed(proc, "git tag")
    /\ UNCHANGED <<registryVars, versionVars, call>>

RM_gitPush(ok) ==
    /\ proc.script = "release" /\ proc.pc = "git push"
    /\ IF ok
       THEN /\ git' = [git EXCEPT !.pushed = @ \cup {proc.newVersion}]
            /\ proc' = RM_gitDone(Ran(proc, "git push", TRUE))
       ELSE /\ git' = git
            /\ proc' = RM_gitFailed(proc, "git push")
    /\ UNCHANGED <<registryVars, versionVars, call>>

\* The commands of the test command of workflow.js, in one try block.
WorkflowTestSteps == <<"npm test", "npm run test:cli", "npm run format:check">>

\* The steps of prepareRelease: name and command.
WorkflowReleaseSteps ==
    <<[name |-> "Run tests", command |-> "npm test"],
      [name |-> "Format code", command |-> "npm run format"],
      [name |-> "Build Docker image", command |-> "npm run docker:build"],
      [name |-> "Check version status", command |-> "npm run version:status"]>>

\* What is printed when a step of prepareRelease fails.
StepFailed(name) ==
    CASE name = "Run tests" -> "Run tests failed"
      [] name = "Format code" -> "Format code failed"
      [] name = "Build Docker image" -> "Build Docker image failed"
      [] name = "Check version status" -> "Check version status failed"

\* node scripts/workflow.js test|release
WM_main(command) ==
    /\ proc.pc = "idle"
    /\ proc' = [proc EXCEPT !.script = "workflow",
                            !.command = command,
                            !.step = 1,
                            !.pc = IF command = "test" THEN "runTests"
                                   ELSE "git status"]
    /\ UNCHANGED <<registryVars, versionVars, call, git>>

\* WorkflowManager.runTests: the next command of the try block; the catch
\* prints that the tests failed and runTests returns.
WM_runTests(ok) ==
    /\ proc.script = "workflow" /\ proc.pc = "runTests"
    /\ LET ran == Ran(proc, WorkflowTestSteps[proc.step], ok) IN
       proc' = IF ~ok THEN Exit(Say(ran, "Tests failed!"), 0)
               ELSE IF proc.step = Len(WorkflowTestSteps)
               THEN Exit(Say(ran, "All tests passed!"), 0)
               ELSE [ran EXCEPT !.step = @ + 1]
    /\ UNCHANGED <<registryVars, versionVars, call, git>>

\* prepareRelease: git status --porcelain
WM_gitStatus ==
    /\ proc.script = "workflow" /\ proc.pc = "git status"
    /\ proc' = IF ~git.repo
               THEN Exit(Say(Ran(proc, "git status --porcelain", FALSE),
                             "Not in a git repository"), 0)
               ELSE Goto(Ran(proc, "git status --porcelain", TRUE),
                         IF git.dirty THEN "promptProceed" ELSE "steps")
    /\ UNCHANGED <<registryVars, versionVars, call, git>>

\* The prompt "Do you want to commit them first?"
WM_promptProceed(proceed) ==
    /\ proc.script = "workflow" /\ proc.pc = "promptProceed"
    /\ proc' = IF proceed
               THEN Goto(Ran(proc, "prompt proceed", TRUE), "steps")
               ELSE Exit(Say(Ran(proc, "prompt proceed", TRUE),
                             "Release preparation cancelled."), 0)
    /\ UNCHANGED <<registryVars, versionVars, call, git>>

\* The next step of the checklist of prepareRelease.  The last step runs
\* the status command of version-manager.js, which creates
\* .version-history.json when the file does not exist.
WM_step(ok) ==
    /\ proc.script = "workflow" /\ proc.pc = "steps"
    /\ LET step == WorkflowReleaseSteps[proc.step]
           ran == Ran(proc, step.command, ok)
       IN  /\ proc' = IF ~ok THEN Exit(Say(ran, StepFailed(step.name)), 0)
                      ELSE IF proc.step = Len(WorkflowReleaseSteps)
                      THEN Exit(Say(ran, "Pre-release checks passed!"), 0)
                      ELSE [ran EXCEPT !.step = @ + 1]
           /\ fsFiles' = IF ok /\ step.command = "npm run version:status"
                         THEN initVersionHistoryCall(fsFiles)
                         ELSE fsFiles
    /\ UNCHANGED <<registry, fsDirs, result, versionVars, call, git>>

\* The answers of the file system to a write
WriteOutcomes == {"ok", "writeFails"}

\* Where a checkout keeps package.json and what .version-history.json holds
\* once it has been initialized.
InitialHistory == initVersionHistoryCall([p \in {versionHistoryPath} |-> NoFile])[versionHistoryPath]

\* One run of one script in a checkout: with or without a repository, with
\* or without uncommitted changes, with no commit or some commits since the
\* last tag, with or without .version-history.json, and with or without a
\* package.json next to the scripts.
CliInit ==
    /\ \E history \in {NoFile, InitialHistory},
          scripts \in {NoFile, File(JsonStringify(PackageJson(PackageVersion)))} :
         fsFiles = [p \in {packagePath, changelogPath, versionHistoryPath,
                           ReleaseManager_packagePath,
                           ReleaseManager_changelogPath} |->
                      CASE p = packagePath ->
                             File(JsonStringify(PackageJson(PackageVersion)))
                        [] p = changelogPath -> File(RepositoryChangelog)
                        [] p = versionHistoryPath -> history
                        [] p = ReleaseManager_packagePath -> scripts
                        [] OTHER -> NoFile]
    /\ fsDirs = {rootDir, ScriptsDirname}
    /\ commits \in {LogOf(0), LogOf(MaxCommits)}
    /\ \E repo \in BOOLEAN, dirty \in BOOLEAN :
         /\ dirty => repo
         /\ git = [repo |-> repo, dirty |-> dirty, commits |-> <<>>,
                   tags |-> {}, pushed |-> {}]
    /\ proc = IdleProcess
    /\ currentVersion = PackageVersion
    /\ categories = Undefined
    /\ suggestion = Undefined
    /\ call = Undefined
    /\ registry = <<>>
    /\ result = [op |-> "none", category |-> NoArg, template |-> NoArg,
                 targetDir |-> NoArg, outcome |-> Returned(Undefined)]

CliNext ==
    \/ \E command \in {"status", "suggest", "patch", "bump"} : VM_main(command)
    \/ \E io \in WriteOutcomes : VM_getVersionHistory(io)
    \/ VM_suggestNextVersion
    \/ VM_interactiveVersion
    \/ \E versionType \in {"patch", "minor", "major"} :
         VM_promptVersionType(versionType)
    \/ \E typed \in {<<>>, TypedDescription} : VM_promptDescription(typed)
    \/ \E confirm \in BOOLEAN : VM_promptConfirm(confirm)
    \/ \E description \in {<<>>, TypedDescription} : VM_quickPatch(description)
    \/ \E io \in WriteOutcomes : VM_updatePackageVersion(io)
    \/ \E io \in WriteOutcomes : VM_updateChangelog(io)
    \/ \E io \in WriteOutcomes : VM_addVersionToHistory(io)
    \/ \E ok \in BOOLEAN : VM_gitAdd(ok)
    \/ \E ok \in BOOLEAN : VM_gitCommit(ok)
    \/ \E ok \in BOOLEAN : VM_gitTag(ok)
    \/ \E command \in {"release", "patch", "minor", "major"} : RM_main(command)
    \/ \E porcelain \in BOOLEAN : RM_gitStatus(porcelain)
    \/ \E continueWithChanges \in BOOLEAN : RM_promptContinue(continueWithChanges)
    \/ \E releaseType \in {"patch", "minor", "major"} :
         RM_promptReleaseType(releaseType)
    \/ \E confirm \in BOOLEAN : RM_promptConfirm(confirm)
    \/ \E ok \in BOOLEAN : RM_formatCode(ok)
    \/ \E ok \in BOOLEAN : RM_runTests(ok)
    \/ \E io \in WriteOutcomes : RM_updatePackageVersion(io)
    \/ \E io \in WriteOutcomes : RM_updateChangelog(io)
    \/ \E pushToRemote \in BOOLEAN : RM_promptPush(pushToRemote)
    \/ \E ok \in BOOLEAN : RM_gitAdd(ok)
    \/ \E ok \in BOOLEAN : RM_gitCommit(ok)
    \/ \E ok \in BOOLEAN : RM_gitTag(ok)
    \/ \E ok \in BOOLEAN : RM_gitPush(ok)
    \/ \E command \in {"test", "release"} : WM_main(command)
    \/ \E ok \in BOOLEAN : WM_runTests(ok)
    \/ WM_gitStatus
    \/ \E proceed \in BOOLEAN : WM_promptProceed(proceed)
    \/ \E ok \in BOOLEAN : WM_step(ok)

CliSpec == CliInit /\ [][CliNext]_vars


(***************************************************************************)
(* Reading the commits: the output of git log and its parsing.             *)
(***************************************************************************)
\* %B, the raw message of a commit: the subject and, after an empty line,
\* the body.
RawMessage(c) ==
    IF c.body = <<>> THEN c.message ELSE c.message \o <<"\n", "\n">> \o c.body

\* One commit in the format "%h|%s|%an|%ad|%B" of version-manager.js
VersionManagerLogEntry(c) ==
    c.hash \o <<"|">> \o c.message \o <<"|">> \o c.author \o <<"|">> \o c.date
      \o <<"|">> \o RawMessage(c)

\* One commit in the format "%h|%s|%an|%ad" of release.js
ReleaseManagerLogEntry(c) ==
    c.hash \o <<"|">> \o c.message \o <<"|">> \o c.author \o <<"|">> \o c.date

\* The output of git log --pretty=format:...: the entries of the commits,
\* separated by line feeds.
VersionManagerLog(cs) ==
    Join([i \in DOMAIN cs |-> VersionManagerLogEntry(cs[i])], <<"\n">>)

ReleaseManagerLog(cs) ==
    Join([i \in DOMAIN cs |-> ReleaseManagerLogEntry(cs[i])], <<"\n">>)

\* line.includes('|')
HasSeparator(line) == includes(line, <<"|">>)

\* line.trim() is truthy
IsNotBlank(line) == trim(line) # <<>>

\* The element of a destructured array, undefined past its end.
PartOrUndefined(parts, i) == IF i <= Len(parts) THEN Str(parts[i]) ELSE Undefined

\* VersionManager.parseCommits(commitString): trim() of an undefined author
\* or date throws a TypeError.
parseCommitsCall(commitString) ==
    IF trim(commitString) = <<>> THEN Returned(<<>>)
    ELSE LET lines == SelectSeq(Split(commitString, "\n"), HasSeparator)
             parts == [i \in DOMAIN lines |-> Split(lines[i], "|")]
         IN  IF \E i \in DOMAIN parts : Len(parts[i]) < 4
             THEN Threw("TypeError",
                        "Cannot read properties of undefined (reading 'trim')",
                        <<>>)
             ELSE Returned([i \in DOMAIN parts |->
                              [hash |-> trim(parts[i][1]),
                               message |-> trim(parts[i][2]),
                               author |-> trim(parts[i][3]),
                               date |-> trim(parts[i][4]),
                               body |-> trim(Join(SubSeq(parts[i], 5,
                                                         Len(parts[i])),
                                                  <<"|">>))]])

\* The parsing of ReleaseManager.getCommitsSinceLastTag: no trim, and a
\* missing field is undefined.
ReleaseManager_parseCommitsCall(commitString) ==
    LET lines == SelectSeq(Split(commitString, "\n"), IsNotBlank)
        parts == [i \in DOMAIN lines |-> Split(lines[i], "|")]
    IN  Returned([i \in DOMAIN parts |->
                    [hash |-> PartOrUndefined(parts[i], 1),
                     message |-> PartOrUndefined(parts[i], 2),
                     author |-> PartOrUndefined(parts[i], 3),
                     date |-> PartOrUndefined(parts[i], 4)]])

\* Commits as git holds them: subject and body of the developer's message.
MessagePool ==
    <<[message |-> <<"f", "e", "a", "t", ":", " ", "a", "d", "d", " ", "l", "o", "g", "i", "n">>, body |-> <<>>],
      [message |-> <<"f", "i", "x", ":", " ", "t", "y", "p", "o">>, body |-> <<"B", "R", "E", "A", "K", "I", "N", "G", " ", "C", "H", "A", "N", "G", "E", ":", " ", "x">>],
      [message |-> <<"d", "o", "c", "s", ":", " ", "a", "p", "i">>, body |-> <<"o", "n", "e", "\n", "t", "w", "o">>],
      [message |-> <<"f", "i", "x", ":", " ", "p", "a", "r", "s", "e", "r">>, body |-> <<"s", "e", "e", " ", "a", "|", "b">>],
      [message |-> <<"f", "e", "a", "t", ":", " ", "a", "|", "b">>, body |-> <<>>]>>

\* At most this many commits are logged.
MaxLog == 2

\* A repository without commits since the last tag; nothing has been read.
ParseInit ==
    /\ commits = <<>>
    /\ call = [op |-> "none", arg |-> Undefined, outcome |-> Returned(Undefined)]
    /\ git = Undefined
    /\ proc = Undefined
    /\ currentVersion = PackageVersion
    /\ categories = Undefined
    /\ suggestion = Undefined
    /\ registry = <<>>
    /\ fsFiles = <<>>
    /\ fsDirs = {}
    /\ result = [op |-> "none", category |-> NoArg, template |-> NoArg,
                 targetDir |-> NoArg, outcome |-> Returned(Undefined)]

\* A developer commits; git log lists the newest commit first.
GitCommit(m) ==
    /\ Len(commits) < MaxLog
    /\ commits' = <<[hash |-> NumberToString(Len(commits) + 1),
                     message |-> m.message,
                     author |-> <<"d", "e", "v">>,
                     date |-> <<"2", "0", "2", "5", "-", "0", "1", "-", "0", "1">>,
                     body |-> m.body]>> \o commits
    /\ UNCHANGED <<registryVars, currentVersion, categories, suggestion,
                   releaseVars>>

\* VersionManager.getCommitsSinceLastTag in the repository
VersionManagerGetCommits ==
    /\ call' = [op |-> "VersionManager.getCommitsSinceLastTag",
                arg |-> commits,
                outcome |-> parseCommitsCall(VersionManagerLog(commits))]
    /\ UNCHANGED <<registryVars, versionVars, cliVars>>

\* ReleaseManager.getCommitsSinceLastTag in the repository
ReleaseManagerGetCommits ==
    /\ call' = [op |-> "ReleaseManager.getCommitsSinceLastTag",
                arg |-> commits,
                outcome |-> ReleaseManager_parseCommitsCall(
                              ReleaseManagerLog(commits))]
    /\ UNCHANGED <<registryVars, versionVars, cliVars>>

ParseNext ==
    \/ \E i \in DOMAIN MessagePool : GitCommit(MessagePool[i])
    \/ VersionManagerGetCommits
    \/ ReleaseManagerGetCommits

ParseSpec == ParseInit /\ [][ParseNext]_vars


(***************************************************************************)
(* Releases from a version with a prerelease tag.  A tagged version is its *)
(* <<major, minor, patch>> and its prerelease identifiers, none for a      *)
(* release version.                                                        *)
(***************************************************************************)
\* semver.inc(version, type) of node-semver for major, minor and patch: a
\* prerelease of the very version asked for is released, not incremented.
semverIncTagged(v, type) ==
    [core |->
       IF v.prerelease = <<>> THEN semverInc(v.core, type)
       ELSE CASE type = "major" ->
                   IF v.core[2] # 0 \/ v.core[3] # 0
                   THEN <<v.core[1] + 1, 0, 0>>
                   ELSE <<v.core[1], 0, 0>>
              [] type = "minor" ->
                   IF v.core[3] # 0
                   THEN <<v.core[1], v.core[2] + 1, 0>>
                   ELSE <<v.core[1], v.core[2], 0>>
              [] type = "patch" -> v.core,
     prerelease |-> <<>>]

\* The fields of the entry that quickPatch and interactiveVersion make
\* addVersionToHistory build: version is getNextVersion(type), and
\* semver.major, semver.minor and semver.patch read the numbers only.
TaggedEntry(current, type) ==
    [version |-> semverIncTagged(current, type),
     type |-> type,
     previousVersion |-> current,
     semverIncrease |->
       getSemverIncrease(current.core, semverIncTagged(current, type).core)]

\* The versions package.json may hold: release versions and their alpha
\* prereleases.
TaggedVersions ==
    {[core |-> c, prerelease |-> p] :
       c \in Versions, p \in {<<>>, <<"alpha", 0>>}}

\* A VersionManager is constructed on a package.json with some version.
TaggedInit ==
    /\ currentVersion \in TaggedVersions
    /\ call = [op |-> "none", arg |-> Undefined, outcome |-> Returned(Undefined)]
    /\ git = Undefined
    /\ proc = Undefined
    /\ commits = <<>>
    /\ categories = Undefined
    /\ suggestion = Undefined
    /\ registry = <<>>
    /\ fsFiles = <<>>
    /\ fsDirs = {}
    /\ result = [op |-> "none", category |-> NoArg, template |-> NoArg,
                 targetDir |-> NoArg, outcome |-> Returned(Undefined)]

\* quickPatch (type patch) or interactiveVersion (the chosen type) adds the
\* entry of its release to the history.
AddReleaseEntry(type) ==
    /\ call.op = "none"
    /\ call' = [op |-> "addVersionToHistory", arg |-> type,
                outcome |-> Returned(TaggedEntry(currentVersion, type))]
    /\ UNCHANGED <<registryVars, versionVars, cliVars>>

TaggedNext == \E type \in {"patch", "minor", "major"} : AddReleaseEntry(type)

TaggedSpec == TaggedInit /\ [][TaggedNext]_vars


(***************************************************************************)
(* Several releases through one VersionManager instance, as a program      *)
(* that requires the module makes them.                                    *)
(***************************************************************************)
\* The versions of the history in the files, none before the file exists.
VersionsIn(files) ==
    IF files[versionHistoryPath].exists
    THEN Prop(readJson(files, versionHistoryPath), "versions").v
    ELSE <<>>

\* The three awaited writes of quickPatch and interactiveVersion:
\* updatePackageVersion, updateChangelog and addVersionToHistory.
ReleaseWritesCall(files, current, type, description, historyDescription, cs) ==
    LET newVersion == getNextVersion(current, type)
        versioned == writeJson(files, packagePath,
                               SetProp(readJson(files, packagePath), "version",
                                       Str(VersionString(newVersion))))
        logged == updateChangelogCall(
                    versioned,
                    generateChangelogEntry(VersionString(newVersion),
                                           categorizeCommits(cs), description))
    IN  addVersionToHistoryCall(logged, current, newVersion, Str(type),
                                Str(historyDescription), cs, "ok").files

\* A new VersionManager in a checkout with package.json and CHANGELOG.md
\* and without .version-history.json; the constructor has read the version.
InstanceInit ==
    /\ currentVersion \in HistoryVersions
    /\ fsFiles = [p \in {packagePath, changelogPath, versionHistoryPath} |->
                    CASE p = packagePath ->
                           File(JsonStringify(PackageJson(currentVersion)))
                      [] p = changelogPath -> File(HeaderOnlyChangelog)
                      [] OTHER -> NoFile]
    /\ fsDirs = {rootDir}
    /\ commits \in {LogOf(0), LogOf(2), LogOf(MaxCommits)}
    /\ call = [op |-> "none", arg |-> Undefined, outcome |-> Returned(Undefined)]
    /\ git = Undefined
    /\ proc = Undefined
    /\ categories = Undefined
    /\ suggestion = Undefined
    /\ registry = <<>>
    /\ result = [op |-> "none", category |-> NoArg, template |-> NoArg,
                 targetDir |-> NoArg, outcome |-> Returned(Undefined)]

\* quickPatch(description) on the instance; it returns what createGitTag
\* returns.  No method assigns this.currentVersion.
InstanceQuickPatch(description, tagged) ==
    /\ Len(VersionsIn(fsFiles)) < MaxReleases
    /\ fsFiles' = ReleaseWritesCall(fsFiles, currentVersion, "patch", description,
                                    IF description = <<>> THEN <<"P", "a", "t", "c", "h", " ", "r", "e", "l", "e", "a", "s", "e">>
                                    ELSE description,
                                    commits)
    /\ call' = [op |-> "quickPatch", arg |-> "patch",
                outcome |-> Returned(tagged)]
    /\ UNCHANGED <<registry, fsDirs, result, versionVars, cliVars>>

\* interactiveVersion() on the instance with the answers of the user, who
\* confirms; there are commits since the last tag.
InstanceInteractiveVersion(versionType, description) ==
    /\ Len(VersionsIn(fsFiles)) < MaxReleases
    /\ ~NoCommitsFound(commits)
    /\ fsFiles' = ReleaseWritesCall(fsFiles, currentVersion, versionType,
                                    description, description, commits)
    /\ call' = [op |-> "interactiveVersion", arg |-> versionType,
                outcome |-> Returned(Undefined)]
    /\ UNCHANGED <<registry, fsDirs, result, versionVars, cliVars>>

InstanceNext ==
    \/ \E description \in {<<>>, TypedDescription}, tagged \in BOOLEAN :
         InstanceQuickPatch(description, tagged)
    \/ \E versionType \in {"patch", "minor", "major"} :
         InstanceInteractiveVersion(versionType, TypedDescription)

InstanceSpec == InstanceInit /\ [][InstanceNext]_vars


(***************************************************************************)
(* Two invocations of addVersionToHistory at a time, in two processes or   *)
(* in one.  An invocation first awaits getVersionHistory, which gives it   *)
(* its own copy of the document, and later awaits the writeJson of the     *)
(* copy with its entry added; nothing is locked between the two.           *)
(***************************************************************************)
Invocations == {1, 2}

\* A history with one release, made before the two invocations.
ReleasedHistory ==
    addVersionToHistoryCall([p \in {versionHistoryPath} |-> NoFile],
                            <<1, 0, 1>>, PackageVersion, Str("patch"),
                            Str("Patch release"), LogOf(1),
                            "ok").files[versionHistoryPath]

\* Mutant of InvocationWrite: the document is read again just before the
\* write and the entry is added to what is read.
InvocationWrite_Rereading(i) ==
    /\ call[i].pc = "read"
    /\ fsFiles' = writeJson(fsFiles, versionHistoryPath,
                            unshiftEntry(readJson(fsFiles, versionHistoryPath),
                                         versionEntryOf(currentVersion,
                                                        call[i].arg.version,
                                                        call[i].arg.type,
                                                        call[i].arg.description,
                                                        call[i].arg.commits)))
    /\ call' = [call EXCEPT ![i].pc = "written"]
    /\ UNCHANGED <<registry, fsDirs, result, versionVars, cliVars>>

\* Two processes on a checkout whose history does not exist, is empty or
\* has one release; no invocation has started.
ConcurrentInit ==
    /\ currentVersion = PackageVersion
    /\ \E history \in {NoFile, InitialHistory, ReleasedHistory} :
         fsFiles = [p \in {versionHistoryPath} |-> history]
    /\ fsDirs = {rootDir}
    /\ call = [i \in Invocations |->
                 [pc |-> "idle", arg |-> Undefined, history |-> Undefined]]
    /\ git = Undefined
    /\ proc = Undefined
    /\ commits = <<>>
    /\ categories = Undefined
    /\ suggestion = Undefined
    /\ registry = <<>>
    /\ result = [op |-> "none", category |-> NoArg, template |-> NoArg,
                 targetDir |-> NoArg, outcome |-> Returned(Undefined)]

\* addVersionToHistory up to the end of await this.getVersionHistory(): the
\* file is created when it does not exist, and the document is read.
InvocationRead(i, a) ==
    /\ call[i].pc = "idle"
    /\ LET got == getVersionHistoryCall(fsFiles) IN
       /\ fsFiles' = got.files
       /\ call' = [call EXCEPT ![i] = [pc |-> "read", arg |-> a,
                                       history |-> got.outcome.value]]
    /\ UNCHANGED <<registry, fsDirs, result, versionVars, cliVars>>

\* The rest of addVersionToHistory: the entry is added to the copy that was
\* read and the whole document is written.
InvocationWrite(i) ==
    /\ call[i].pc = "read"
    /\ fsFiles' = writeJson(fsFiles, versionHistoryPath,
                            unshiftEntry(call[i].history,
                                         versionEntryOf(currentVersion,
                                                        call[i].arg.version,
                                                        call[i].arg.type,
                                                        call[i].arg.description,
                                                        call[i].arg.commits)))
    /\ call' = [call EXCEPT ![i].pc = "written"]
    /\ UNCHANGED <<registry, fsDirs, result, versionVars, cliVars>>

ConcurrentNext ==
    \/ \E i \in Invocations, a \in HistoryCalls(currentVersion) :
         InvocationRead(i, a)
    \/ \E i \in Invocations : InvocationWrite(i)

ConcurrentSpec == ConcurrentInit /\ [][ConcurrentNext]_vars


(***************************************************************************)
(* Claims about the template registry (checked under RegistrySpec).        *)
(***************************************************************************)
\* The file {destinationRoot}/.github/instructions.md of each destination
\* root the calls are made with.
ExpectedDestination(targetDir) ==
    IF targetDir = NoArg
    THEN Abs(<<"work", ".github", "instructions.md">>)
    ELSE Abs(<<"work", "proj", ".github", "instructions.md">>)

\* The source document registered for a pair.
RegisteredSource(pair) ==
    CASE pair = <<"fe", "react">> -> "templates/fe/react/instructions.md"
      [] pair = <<"fe", "vanilla">> -> "templates/fe/vanilla/instructions.md"
      [] pair = <<"be", "node-express">> -> "templates/be/node-express/instructions.md"
      [] pair = <<"be", "python-django">> -> "templates/be/python-django/instructions.md"
      [] pair = <<"github", "workflows">> -> "templates/github/workflows/instructions.md"

ResultPair == <<result.category.v, result.template.v>>
GeneratePRDReturned ==
    result.op = "generatePRD" /\ result.outcome.status = "returned"

\* C1: after a successful generatePRD(category, template, destinationRoot)
\* the pair is a registered one and the file
\* {destinationRoot}/.github/instructions.md exists with exactly the content
\* of the pair's registered source document.
Thm_C1_MaterializeCopiesSource ==
    GeneratePRDReturned =>
        /\ ResultPair \in RegisteredPairs
        /\ fsFiles[SourcePath(RegisteredSource(ResultPair))].exists
        /\ fsFiles[ExpectedDestination(result.targetDir)] =
             File(SourceContent(RegisteredSource(ResultPair)))

\* C1 witness: be/node-express was materialised into the relative root.
Wit_C1_NodeExpressCopied ==
    /\ GeneratePRDReturned
    /\ ResultPair = <<"be", "node-express">>
    /\ result.targetDir = Arg(Rel(<<".", "proj">>))
    /\ Len(fsFiles[Abs(<<"work", "proj", ".github", "instructions.md">>)].content) = 4

\* The id of a call that the registry does not hold: the category id when
\* it is not registered, else the template id.
KnownCategories == {"fe", "be", "github"}
UnknownCall ==
    \/ /\ result.op \in {"generatePRD", "getTemplateInfo"}
       /\ ResultPair \notin RegisteredPairs
    \/ /\ result.op = "getAvailableTemplates"
       /\ result.category.given
       /\ result.category.v \notin KnownCategories
UnknownId ==
    IF result.category.v \notin KnownCategories
    THEN result.category.v
    ELSE result.template.v

\* A not-found error that names the id.
NotFoundNaming(outcome, id) ==
    /\ outcome.status = "threw"
    /\ outcome.error.name = "Error"
    /\ outcome.error.format \in {"Category \"%\" not found",
                                 "Template \"%\" not found in category \"%\""}
    /\ id \in Range(outcome.error.args)

Orig_C3_DescribeNeverRaises ==
    result.op = "getTemplateInfo" =>
        /\ result.outcome.status = "returned"
        /\ (result.outcome.value = Null) <=> (ResultPair \notin RegisteredPairs)
        /\ ResultPair \in RegisteredPairs =>
             /\ result.outcome.value.undefinedFields = {}
             /\ result.outcome.value.source = RegisteredSource(ResultPair)

\* C4 as stated: a successful generatePRD returns the absolute path of the
\* destination file, for absolute and relative destination roots alike.
Orig_C4_ReturnsAbsolutePath ==
    GeneratePRDReturned =>
        result.outcome.value = ExpectedDestination(result.targetDir)

\* C4 amended: a successful generatePRD returns
\* path.join(destinationRoot, ".github/instructions.md"): normalised, naming
\* the destination file, and absolute exactly when destinationRoot is (for
\* a relative root it is relative to the working directory).
Thm_C4_ReturnsJoinedPath ==
    GeneratePRDReturned =>
        LET root == IF result.targetDir.given THEN result.targetDir.v ELSE Cwd
            value == result.outcome.value
        IN  /\ value.abs <=> root.abs
            /\ value.segs =
                 (IF root.abs THEN root.segs ELSE <<"proj">>)
                   \o <<".github", "instructions.md">>
            /\ (IF value.abs THEN value
                ELSE Abs(<<"work">> \o value.segs)) =
                 ExpectedDestination(result.targetDir)

\* C4 witness: a call with the relative root "./proj" has returned.
Wit_C4_RelativeRootReturned ==
    /\ GeneratePRDReturned
    /\ result.targetDir = Arg(Rel(<<".", "proj">>))
    /\ ~result.outcome.value.abs

\* C5: a successful generatePRD onto an existing destination file replaces
\* its whole content by the source document of this call, whatever the
\* file held before (the user's file or the document of an earlier call),
\* and changes no other file.
Thm_C5_OverwritesExisting ==
    [][(GeneratePRDReturned'
          /\ fsFiles[ExpectedDestination(result'.targetDir)].exists) =>
         /\ fsFiles'[ExpectedDestination(result'.targetDir)].content =
              SourceContent(RegisteredSource(ResultPair'))
         /\ \A f \in AllFiles \ {ExpectedDestination(result'.targetDir)} :
              fsFiles'[f] = fsFiles[f]]_vars

\* C5 witness: the user's five-line file in the working directory now holds
\* the two-line vanilla document.
Wit_C5_UserFileReplaced ==
    /\ GeneratePRDReturned
    /\ ResultPair = <<"fe", "vanilla">>
    /\ result.targetDir = NoArg
    /\ fsFiles[Abs(<<"work", ".github", "instructions.md">>)].content =
         SourceContent("templates/fe/vanilla/instructions.md")

\* C6: generatePRD for a registered pair whose source document is missing
\* fails with "Template file not found" naming the source, and leaves the
\* files and the directories as they were.
Thm_C6_SourceMissingBeforeWrite ==
    [][(/\ result'.op = "generatePRD"
        /\ ResultPair' \in RegisteredPairs
        /\ ~fsFiles[SourcePath(RegisteredSource(ResultPair'))].exists) =>
         /\ result'.outcome.status = "threw"
         /\ result'.outcome.error.format = "Template file not found: %"
         /\ result'.outcome.error.args = <<RegisteredSource(ResultPair')>>
         /\ UNCHANGED <<fsFiles, fsDirs>>]_vars

\* C6 witness: the call failed on a missing source; /work/proj/.github was
\* not created and the user's file is intact.
Wit_C6_SourceMissing ==
    /\ result.op = "generatePRD"
    /\ result.outcome.error.format = "Template file not found: %"
    /\ result.targetDir = Arg(Abs(<<"work", "proj">>))
    /\ Abs(<<"work", "proj", ".github">>) \notin fsDirs
    /\ fsFiles[Abs(<<"work", ".github", "instructions.md">>)] = File(UserContent)

Thm_C8_RegistryNeverMutated ==
    [][/\ registry' = registry
       /\ getAvailableCategoriesCall(registry') =
            getAvailableCategoriesCall(registry)
       /\ getAvailableTemplatesCall(registry', NoArg) =
            getAvailableTemplatesCall(registry, NoArg)]_vars

\* C8 witness: the categories are listed after a generatePRD has written
\* a document into /work/proj.
Wit_C8_ListedAfterGenerate ==
    /\ result.op = "getAvailableCategories"
    /\ fsFiles[Abs(<<"work", "proj", ".github", "instructions.md">>)].exists
    /\ registry = TEMPLATE_STRUCTURE


(***************************************************************************)
(* Claims about the version suggestion engine (checked under VersionSpec). *)
(***************************************************************************)
\* The precedence of the eleven buckets.
Precedence ==
    <<"breaking", "features", "fixes", "docs", "style", "refactor", "test",
      "performance", "security", "chore", "other">>

\* The first bucket, in precedence order from index i on, whose predicate
\* the commit satisfies.
RECURSIVE FirstMatchFrom(_, _, _)
FirstMatchFrom(message, body, i) ==
    IF Matches(Precedence[i], message, body) THEN Precedence[i]
    ELSE FirstMatchFrom(message, body, i + 1)
FirstMatch(commit) ==
    FirstMatchFrom(toLowerCase(commit.message), toLowerCase(commit.body), 1)

\* The first matching bucket of each commit of a sequence.
RECURSIVE FirstMatches(_)
FirstMatches(cs) ==
    IF cs = <<>> THEN <<>>
    ELSE <<FirstMatch(Head(cs))>> \o FirstMatches(Tail(cs))

RECURSIVE SumLen(_, _)
SumLen(buckets, names) ==
    IF names = {} THEN 0
    ELSE LET n == CHOOSE n \in names : TRUE
         IN  Len(buckets[n]) + SumLen(buckets, names \ {n})

\* The commits from index i on whose class is n, in input order.
RECURSIVE Classified(_, _, _, _)
Classified(cs, class, n, i) ==
    IF i > Len(cs) THEN <<>>
    ELSE (IF class[i] = n THEN <<cs[i]>> ELSE <<>>)
         \o Classified(cs, class, n, i + 1)

\* C9: categorizeCommits puts every commit into exactly one of the eleven
\* buckets, the first one in precedence order whose predicate it satisfies;
\* the bucket sizes sum to the number of commits and every bucket keeps the
\* input order.
Thm_C9_ClassificationTotalExclusive ==
    categories.t = "categories" =>
        LET cs == commits
            buckets == categories.buckets
            first == FirstMatches(cs)
        IN  /\ DOMAIN buckets = Range(Precedence)
            /\ Cardinality(DOMAIN buckets) = 11
            /\ \A i \in DOMAIN cs :
                 {n \in DOMAIN buckets : cs[i] \in Range(buckets[n])} =
                   {first[i]}
            /\ SumLen(buckets, DOMAIN buckets) = Len(cs)
            /\ \A n \in DOMAIN buckets :
                 buckets[n] = Classified(cs, first, n, 1)

\* C9 witness: three commits were classified, among them one that satisfies
\* the predicates of security and chore and one that satisfies those of
\* breaking and feature.
Wit_C9_OverlappingPredicates ==
    /\ categories.t = "categories"
    /\ Len(commits) = 3
    /\ \E c \in Range(categories.buckets.security) :
         /\ Matches("chore", toLowerCase(c.message), toLowerCase(c.body))
         /\ Matches("security", toLowerCase(c.message), toLowerCase(c.body))
    /\ \E c \in Range(categories.buckets.breaking) :
         Matches("features", toLowerCase(c.message), toLowerCase(c.body))
    /\ Len(categories.buckets.other) = 1

Msg_feat_add_login == <<"f", "e", "a", "t", ":", " ", "a", "d", "d", " ", "l", "o", "g", "i", "n">>
Msg_fix_null_check == <<"f", "i", "x", ":", " ", "n", "u", "l", "l", " ", "c", "h", "e", "c", "k">>
Msg_chore_bump_deps == <<"c", "h", "o", "r", "e", ":", " ", "b", "u", "m", "p", " ", "d", "e", "p", "s">>

\* The commits of the scenario, in any order.
ScenarioCommits(cs) ==
    /\ Len(cs) = 3
    /\ {cs[i].message : i \in DOMAIN cs} =
         {Msg_feat_add_login, Msg_fix_null_check, Msg_chore_bump_deps}

\* C10: the suggested type is major if some commit since the last tag is
\* classified breaking, else minor if some commit is classified feature,
\* else patch; for the commits "feat: add login", "fix: null check",
\* "chore: bump deps" the buckets feature, fix and chore hold one commit
\* each, the others none, and the suggestion is minor.
Thm_C10_BumpTypeFromClassification ==
    suggestion.t = "suggestion" =>
        LET cs == commits
            classes == Range(FirstMatches(cs))
        IN  /\ suggestion.value.type =
                 (IF "breaking" \in classes THEN "major"
                  ELSE IF "features" \in classes THEN "minor"
                  ELSE "patch")
            /\ suggestion.value.commits = Len(cs)
            /\ ScenarioCommits(cs) =>
                 /\ suggestion.value.type = "minor"
                 /\ \A n \in Range(Precedence) :
                      Len(categorizeCommits(cs)[n]) =
                        (IF n \in {"features", "fixes", "chore"} THEN 1 ELSE 0)

\* C10 witness: the suggestion for the three commits of the scenario.
Wit_C10_ScenarioSuggestsMinor ==
    /\ suggestion.t = "suggestion"
    /\ ScenarioCommits(commits)
    /\ suggestion.value.type = "minor"
    /\ suggestion.value.version = <<1, 1, 0>>

(***************************************************************************)
(* Claims about version numbers (checked under SemverSpec).                *)
(***************************************************************************)
\* The standard semantic-version increment of x.y.z.
StandardIncrement(v, type) ==
    CASE type = "major" -> <<v[1] + 1, 0, 0>>
      [] type = "minor" -> <<v[1], v[2] + 1, 0>>
      [] type = "patch" -> <<v[1], v[2], v[3] + 1>>

\* C11: for every current version x.y.z and every type among major, minor
\* and patch, getNextVersion returns x+1.0.0, x.y+1.0 or x.y.z+1, and
\* VersionManager.getNextVersion (semver.inc) and
\* ReleaseManager.getNextVersion (integer arithmetic on the text) return
\* the same version.
Thm_C11_NextVersionStandardAndEqual ==
    (/\ call.op \in {"VersionManager.getNextVersion",
                       "ReleaseManager.getNextVersion"}
     /\ call.arg \in {"major", "minor", "patch"}) =>
        /\ call.outcome =
             Returned(VersionString(StandardIncrement(currentVersion, call.arg)))
        /\ getNextVersionCall(currentVersion, call.arg) =
             ReleaseManager_getNextVersion(VersionString(currentVersion),
                                           call.arg)

\* C11 witness: release.js has bumped 1.9.2 by a minor step and returned
\* the text 1.10.0.
Wit_C11_ReleaseManagerMinorCarry ==
    /\ call.op = "ReleaseManager.getNextVersion"
    /\ call.arg = "minor"
    /\ currentVersion = <<1, 9, 2>>
    /\ call.outcome = Returned(<<"1", ".", "1", "0", ".", "0">>)

\* Applying an inferred bump to a version; "none" leaves it as it is.
ApplyBump(v, bump) ==
    IF bump = "none" THEN v ELSE StandardIncrement(v, bump)

SemverIncreaseReturned == call.op = "getSemverIncrease"

HistoryOnDisk == readJson(fsFiles, versionHistoryPath)

\* C13: in the persisted version history totalReleases equals the length
\* of versions in every reachable state: after the lazy initialisation
\* (0 and empty) and after any sequence of addVersionToHistory calls.
Thm_C13_TotalReleasesIsLength ==
    fsFiles[versionHistoryPath].exists =>
        Prop(HistoryOnDisk, "totalReleases") =
          Num(Len(Prop(HistoryOnDisk, "versions").v))

\* C13 witness: two entries were added one after the other and the
\* history counts two releases.
Wit_C13_TwoReleasesCounted ==
    /\ fsFiles[versionHistoryPath].exists
    /\ call.op = "addVersionToHistory"
    /\ call.outcome.status = "returned"
    /\ Len(Prop(HistoryOnDisk, "versions").v) = 2
    /\ Prop(HistoryOnDisk, "totalReleases") = Num(2)

\* The four fields of an entry that the round trip is about.
RoundTripFields == <<"version", "type", "commits", "previousVersion">>

\* C16: after addVersionToHistory has written an entry, reloading
\* .version-history.json yields as versions[0] an entry with the same
\* version, type, commit count and previousVersion as the entry written
\* (the one the call returned, built from its arguments).
Thm_C16_EntryRoundTrip ==
    (call.op = "addVersionToHistory" /\ call.outcome.status = "returned") =>
        LET written == call.outcome.value
            loaded == Prop(getVersionHistoryCall(fsFiles).outcome.value,
                           "versions").v[1]
        IN  /\ \A i \in DOMAIN RoundTripFields :
                 Prop(loaded, RoundTripFields[i]) =
                   Prop(written, RoundTripFields[i])
            /\ Prop(written, "version") = Str(VersionString(call.arg.version))
            /\ Prop(written, "type") = call.arg.type
            /\ Prop(written, "commits") = Num(Len(call.arg.commits))
            /\ Prop(written, "previousVersion") =
                 Str(VersionString(currentVersion))

\* C16 witness: a minor release of 1.0.2 with twelve commits was written
\* and is read back as versions[0].
Wit_C16_MinorEntryReloaded ==
    /\ call.op = "addVersionToHistory"
    /\ call.outcome.status = "returned"
    /\ currentVersion = PackageVersion
    /\ call.arg.type = Str("minor")
    /\ LET loaded == Prop(HistoryOnDisk, "versions").v[1] IN
       /\ Prop(loaded, "version") = Str(<<"1", ".", "1", ".", "0">>)
       /\ Prop(loaded, "commits") = Num(12)
       /\ Prop(loaded, "previousVersion") = Str(<<"1", ".", "0", ".", "2">>)

(***************************************************************************)
(* Claims about CHANGELOG.md (checked under ChangelogSpec).                *)
(***************************************************************************)
\* The lines of a text that are not blank.
ContentLines(text) ==
    SelectSeq(Split(text, "\n"), LAMBDA line : trim(line) # <<>>)

\* The introductory header block of a changelog: its lines before the
\* first dated section; and the dated sections after it.
HeaderBlock(text) ==
    LET lines == Split(text, "\n")
        first == SectionIndex(lines)
    IN  IF first = -1 THEN text ELSE Join(SubSeq(lines, 1, first), <<"\n">>)

DatedSections(text) ==
    LET lines == Split(text, "\n")
        first == SectionIndex(lines)
    IN  IF first = -1 THEN <<>>
        ELSE Join(SubSeq(lines, first + 1, Len(lines)), <<"\n">>)

\* The changelog file an updateChangelog call works on.
ChangelogPathOf(op) ==
    IF op = "VersionManager.updateChangelog" THEN changelogPath
    ELSE ReleaseManager_changelogPath

\* C17 as stated: updateChangelog, of VersionManager and of ReleaseManager
\* alike, puts the new dated section immediately after the introductory
\* header block and before every earlier dated section, whether the file
\* had a header and sections, a header only, or did not exist; the header
\* block and the earlier sections are kept as they were.
Orig_C17_EntryAfterHeaderBlock ==
    [][call'.op \in {"VersionManager.updateChangelog",
                     "ReleaseManager.updateChangelog"} =>
         LET p == ChangelogPathOf(call'.op)
             new == fsFiles'[p].content
             entry == call'.arg
         IN  IF fsFiles[p].exists
             THEN ContentLines(new) =
                    ContentLines(HeaderBlock(fsFiles[p].content))
                      \o ContentLines(entry)
                      \o ContentLines(DatedSections(fsFiles[p].content))
             ELSE /\ ContentLines(HeaderBlock(new)) # <<>>
                  /\ ContentLines(DatedSections(new)) = ContentLines(entry)]_vars

\* The message of interactiveVersion when there is nothing to release.
NothingToRelease == "No commits found since last tag. Nothing to release."

\* The process p has printed the text.
SaidBy(p, text) == \E i \in DOMAIN p.out : p.out[i] = text

\* The status or suggest command runs in a repository with no commit since
\* the last tag.
ZeroCommitQuery ==
    /\ proc.script = "version-manager"
    /\ proc.command \in {"status", "suggest"}
    /\ git.repo
    /\ Len(commits) = 0

\* C14 as stated: with zero commits since the last tag every step of status
\* and suggest leaves .version-history.json as it is, neither created nor
\* rewritten, and the command ends without error having reported "nothing to
\* release".
Orig_C14_QueriesReportNothingToRelease ==
    [][ZeroCommitQuery =>
         /\ fsFiles'[versionHistoryPath] = fsFiles[versionHistoryPath]
         /\ proc'.pc = "exited" =>
              proc'.exit = 0 /\ SaidBy(proc', NothingToRelease)]_vars

\* What suggestNextVersion returns for no commits.
PatchSuggestion ==
    [type |-> "patch",
     version |-> semverInc(currentVersion, "patch"),
     reasoning |-> <<[n |-> 0, what |-> "Minor changes and improvements"]>>,
     commits |-> 0]

\* C14: with zero commits since the last tag status and suggest never print
\* "nothing to release"; a command that ends without error has suggested the
\* next patch version with the reasoning "Minor changes and improvements".
\* suggest writes no file and raises no error.  status writes no file but
\* .version-history.json, which it leaves as it is when the file exists and
\* creates with an empty history when it does not; status fails only when
\* that file cannot be created.
Thm_C14_QueriesSuggestPatch ==
    [][ZeroCommitQuery =>
         /\ ~SaidBy(proc', NothingToRelease)
         /\ proc'.pc = "exited" /\ proc'.exit = 0 =>
              suggestion'.value = PatchSuggestion
         /\ \A p \in DOMAIN fsFiles \ {versionHistoryPath} :
              fsFiles'[p] = fsFiles[p]
         /\ proc.command = "suggest" =>
              /\ fsFiles' = fsFiles
              /\ proc'.exit # 1
         /\ proc.command = "status" =>
              /\ fsFiles[versionHistoryPath].exists => fsFiles' = fsFiles
              /\ fsFiles'[versionHistoryPath] \in
                   {fsFiles[versionHistoryPath], InitialHistory}
              /\ proc.pc = "getVersionHistory" /\ proc'.pc # "exited" =>
                   fsFiles'[versionHistoryPath] = InitialHistory
              /\ proc'.exit = 1 =>
                   /\ proc.pc = "getVersionHistory"
                   /\ ~fsFiles'[versionHistoryPath].exists]_vars

\* The status command has ended without error in a checkout with no commit
\* since the last tag and without .version-history.json: it has created the
\* file and suggested a patch.
Wit_C14_StatusCreatesHistory ==
    /\ ZeroCommitQuery
    /\ proc.command = "status"
    /\ proc.pc = "exited" /\ proc.exit = 0
    /\ proc.ran = <<[step |-> "write .version-history.json", ok |-> TRUE],
                    [step |-> "git log", ok |-> TRUE]>>
    /\ suggestion.value = PatchSuggestion
    /\ fsFiles[versionHistoryPath] = InitialHistory

\* The bump command runs in a repository with no commit since the last tag.
ZeroCommitBump ==
    /\ proc.script = "version-manager"
    /\ proc.command = "bump"
    /\ git.repo
    /\ Len(commits) = 0

\* C15: with zero commits since the last tag no step of the bump command
\* writes a file or changes the repository, the command reaches no prompt,
\* and it ends, without error, after the one git log step with the message
\* "nothing to release".
Thm_C15_BumpEndsBeforePrompts ==
    [][ZeroCommitBump =>
         /\ fsFiles' = fsFiles
         /\ git' = git
         /\ proc'.pc \in {"interactiveVersion", "exited"}
         /\ proc'.pc = "exited" =>
              /\ proc'.exit = 0
              /\ SaidBy(proc', NothingToRelease)
              /\ proc'.ran = <<[step |-> "git log", ok |-> TRUE]>>]_vars

\* The bump command has ended with "nothing to release".
Wit_C15_NothingToRelease ==
    /\ ZeroCommitBump
    /\ proc.pc = "exited"
    /\ proc.out = <<NothingToRelease>>
    /\ fsFiles[packagePath] = File(JsonStringify(PackageJson(PackageVersion)))
    /\ fsFiles[changelogPath] = File(RepositoryChangelog)

\* A release flow runs: the patch or bump command of version-manager.js,
\* release.js, or the release command of workflow.js.
ReleaseFlow ==
    \/ proc.script = "release"
    \/ proc.script = "workflow" /\ proc.command = "release"
    \/ proc.script = "version-manager" /\ proc.command \in {"patch", "bump"}

\* The steps of a release: tests, formatting, the build, the writes and the
\* git commands that change the repository.
WorkSteps ==
    {"npm test", "npm run format", "npm run docker:build",
     "npm run version:status", "write package.json", "write CHANGELOG.md",
     "write .version-history.json", "git add", "git commit", "git tag",
     "git push"}

IsWorkStep(r) == r.step \in WorkSteps

\* The release steps a process has started, in their order.
Work(p) == SelectSeq(p.ran, IsWorkStep)

\* The order of the release steps of each script.
FlowSteps(p) ==
    CASE p.script = "release" ->
           <<"npm run format", "npm test", "write package.json",
             "write CHANGELOG.md", "git add", "git commit", "git tag",
             "git push">>
      [] p.script = "workflow" ->
           <<"npm test", "npm run format", "npm run docker:build",
             "npm run version:status">>
      [] OTHER ->
           <<"write package.json", "write CHANGELOG.md",
             "write .version-history.json", "git add", "git commit",
             "git tag">>

\* The release steps started are the first steps of the script's order.
StepsInOrder(p) ==
    /\ Len(Work(p)) <= Len(FlowSteps(p))
    /\ \A i \in DOMAIN Work(p) : Work(p)[i].step = FlowSteps(p)[i]

\* What the scripts print when a step has failed.
FailureMessages ==
    {"Version management failed: EACCES: permission denied",
     "Version management failed: Command failed: git log",
     "Failed to create git tag: Command failed: git add",
     "Failed to create git tag: Command failed: git commit",
     "Failed to create git tag: Command failed: git tag",
     "Release failed: Cannot find module './package.json'",
     "Release failed: Command failed: git log",
     "Release failed: EACCES: permission denied",
     "Release failed during git operations.",
     "Git operations failed",
     "Not in a git repository",
     "Could not check git status",
     "Tests failed",
     "Tests failed!",
     "Run tests failed", "Format code failed", "Build Docker image failed",
     "Check version status failed"}

FormatWarning == "Code formatting failed (continuing anyway)"

\* The process has ended on the failure of its last step and its last
\* message reports a failure.
HaltedOn(p, i) ==
    /\ i = Len(p.ran)
    /\ p.pc = "exited"
    /\ Len(p.out) > 0
    /\ p.out[Len(p.out)] \in FailureMessages

\* C18 as stated: in a release flow the steps are started in the order of
\* the script, and a step that has failed is the last step started: the flow
\* has ended and its last message reports the failure.
Orig_C18_FirstFailureHalts ==
    ReleaseFlow =>
      /\ StepsInOrder(proc)
      /\ \A i \in DOMAIN proc.ran : ~proc.ran[i].ok => HaltedOn(proc, i)

\* The failed step i is the formatting step of release.js.
FailedFormatOfReleaseManager(p, i) ==
    /\ p.script = "release"
    /\ p.ran[i].step = "npm run format"
    /\ ~p.ran[i].ok

\* C18: in a release flow the steps are started in the order of the script
\* (release.js formats before it tests), and a failing step ends the flow at
\* once with a message about the failure, except the formatting step of
\* release.js: its failure is printed as a warning and the flow goes on with
\* the tests.
Thm_C18_FirstFailureHaltsButFormat ==
    ReleaseFlow =>
      /\ StepsInOrder(proc)
      /\ \A i \in DOMAIN proc.ran :
           ~proc.ran[i].ok =>
             IF FailedFormatOfReleaseManager(proc, i)
             THEN /\ SaidBy(proc, FormatWarning)
                  /\ IF i = Len(proc.ran) THEN proc.pc = "runTests"
                     ELSE proc.ran[i + 1].step = "npm test"
             ELSE HaltedOn(proc, i)

\* release.js has gone on after a failed formatting step and has ended on
\* the failed tests, before any write.
Wit_C18_FormatFailedTestsHalted ==
    /\ proc.script = "release" /\ proc.command = "release"
    /\ Work(proc) = <<[step |-> "npm run format", ok |-> FALSE],
                      [step |-> "npm test", ok |-> FALSE]>>
    /\ proc.pc = "exited" /\ proc.exit = 1
    /\ SaidBy(proc, FormatWarning)

\* C19 as stated: a script that has ended on a failed step has printed a
\* message about the failure and has exited with a status other than 0, and
\* no step that has failed is started again.
Orig_C19_ErrorsExitNonZero ==
    /\ proc.pc = "exited" /\ Len(proc.ran) > 0 /\ ~proc.ran[Len(proc.ran)].ok =>
         /\ Len(proc.out) > 0
         /\ proc.out[Len(proc.out)] \in FailureMessages
         /\ proc.exit # 0
    /\ \A i, j \in DOMAIN proc.ran :
         i < j /\ ~proc.ran[i].ok => proc.ran[j].step # proc.ran[i].step

\* What the scripts print when the user declines.
DeclineMessages ==
    {"Please commit your changes and try again.", "Release cancelled.",
     "Release preparation cancelled."}

\* The user has declined at the uncommitted-changes check or at the
\* confirmation of the release, and the script has ended.
Declined ==
    /\ ReleaseFlow
    /\ proc.pc = "exited"
    /\ Len(proc.out) > 0
    /\ proc.out[Len(proc.out)] \in DeclineMessages

\* C20: when the user has declined at the uncommitted-changes check or at
\* the confirmation, the script has ended with status 0 and has started no
\* release step: package.json and CHANGELOG.md, of the package and next to
\* the scripts, are as they were, no format, test or build has run, and the
\* repository has no new commit, tag or push.
Thm_C20_DeclineStartsNothing ==
    Declined =>
      /\ proc.exit = 0
      /\ Work(proc) = <<>>
      /\ fsFiles[packagePath] = File(JsonStringify(PackageJson(PackageVersion)))
      /\ fsFiles[changelogPath] = File(RepositoryChangelog)
      /\ proc.script = "release" =>
           fsFiles[ReleaseManager_packagePath] =
             File(JsonStringify(PackageJson(PackageVersion)))
      /\ fsFiles[ReleaseManager_changelogPath] = NoFile
      /\ fsFiles[versionHistoryPath] \in {NoFile, InitialHistory}
      /\ git.commits = <<>> /\ git.tags = {} /\ git.pushed = {}

\* release.js has been told to continue with uncommitted changes and has
\* then been declined at the confirmation.
Wit_C20_DeclinedAtConfirmation ==
    /\ Declined
    /\ proc.script = "release" /\ proc.command = "release"
    /\ git.dirty
    /\ proc.ran[Len(proc.ran)] = [step |-> "prompt confirm", ok |-> TRUE]
    /\ proc.out[Len(proc.out)] = "Release cancelled."
    /\ proc.type = "minor"

\* The file writes of a release of each script.
ReleaseWrites(p) ==
    IF p.script = "release"
    THEN {"write package.json", "write CHANGELOG.md"}
    ELSE {"write package.json", "write CHANGELOG.md",
          "write .version-history.json"}

\* A release flow of release.js or version-manager.js runs.
ReleaseScriptFlow ==
    \/ proc.script = "release"
    \/ proc.script = "version-manager" /\ proc.command \in {"patch", "bump"}

\* C21: in the release flows of release.js and version-manager.js a git
\* add, commit or tag is started only after every file write of the release
\* has succeeded, and once a write has failed no git command is started and
\* the repository has no new commit and no new tag.
Thm_C21_CommitAfterAllWrites ==
    ReleaseScriptFlow =>
      /\ \A i \in DOMAIN proc.ran :
           proc.ran[i].step \in {"git add", "git commit", "git tag"} =>
             \A w \in ReleaseWrites(proc) :
               \E j \in 1 .. i - 1 : proc.ran[j] = [step |-> w, ok |-> TRUE]
      /\ (\E j \in DOMAIN proc.ran :
            proc.ran[j].step \in ReleaseWrites(proc) /\ ~proc.ran[j].ok) =>
           /\ \A i \in DOMAIN proc.ran :
                proc.ran[i].step \notin
                  {"git add", "git commit", "git tag", "git push"}
           /\ git.commits = <<>>
           /\ git.tags = {}
      /\ git.commits # <<>> \/ git.tags # {} =>
           \A w \in ReleaseWrites(proc) :
             \E j \in DOMAIN proc.ran : proc.ran[j] = [step |-> w, ok |-> TRUE]

\* The bump command has written package.json and CHANGELOG.md, the write of
\* .version-history.json has failed, and the command has ended without a
\* commit or a tag.
Wit_C21_HistoryWriteFailedNoCommit ==
    /\ proc.script = "version-manager" /\ proc.command = "bump"
    /\ proc.pc = "exited"
    /\ Work(proc) = <<[step |-> "write package.json", ok |-> TRUE],
                      [step |-> "write CHANGELOG.md", ok |-> TRUE],
                      [step |-> "write .version-history.json", ok |-> FALSE]>>
    /\ git.commits = <<>> /\ git.tags = {}

\* The files of a checkout before a release: package.json of the package
\* and CHANGELOG.md as they were, nothing written next to the scripts, and
\* a history without an entry.
NoReleaseArtifact ==
    /\ fsFiles[packagePath] = File(JsonStringify(PackageJson(PackageVersion)))
    /\ fsFiles[changelogPath] = File(RepositoryChangelog)
    /\ fsFiles[ReleaseManager_packagePath] \in
         {NoFile, File(JsonStringify(PackageJson(PackageVersion)))}
    /\ fsFiles[ReleaseManager_changelogPath] = NoFile
    /\ fsFiles[versionHistoryPath] \in {NoFile, InitialHistory}
    /\ git.commits = <<>> /\ git.tags = {} /\ git.pushed = {}

\* C22: outside a repository the suggest, status, patch and bump commands
\* of version-manager.js and every command of release.js leave the version
\* of package.json, CHANGELOG.md, the entries of the history and the tags
\* as they were.  The commands of version-manager.js and the release
\* command of release.js end with a failure message and exit status 1; so
\* does a quick release of release.js unless the user has cancelled it at
\* its confirmation, which comes before its first git command.
Thm_C22_NoRepositoryNoArtifact ==
    ~git.repo /\ proc.script \in {"version-manager", "release"} =>
      /\ NoReleaseArtifact
      /\ proc.pc = "exited" =>
           \/ /\ proc.exit = 1
              /\ Len(proc.out) > 0
              /\ proc.out[Len(proc.out)] \in FailureMessages
           \/ /\ proc.script = "release" /\ proc.command # "release"
              /\ proc.exit = 0
              /\ proc.out = <<"Release cancelled.">>

\* The patch command has failed outside a repository on its git log.
Wit_C22_PatchWithoutRepository ==
    /\ ~git.repo
    /\ proc.script = "version-manager" /\ proc.command = "patch"
    /\ proc.pc = "exited" /\ proc.exit = 1
    /\ proc.ran = <<[step |-> "git log", ok |-> FALSE]>>
    /\ NoReleaseArtifact

\* The subject or the body of the commit contains "breaking", in any case.
MentionsBreaking(commit) ==
    \/ includes(toLowerCase(commit.message), S_breaking)
    \/ includes(toLowerCase(commit.body), S_breaking)

\* C23 as stated: every commit whose subject or body contains "breaking" is
\* in the breaking bucket of categorizeCommits, and with such a commit the
\* suggested bump is major.
Orig_C23_BreakingBySubjectOrBody ==
    /\ categories.t = "categories" =>
         \A i \in DOMAIN commits :
           MentionsBreaking(commits[i]) =>
             \E k \in DOMAIN categories.buckets.breaking :
               categories.buckets.breaking[k] = commits[i]
    /\ suggestion.t = "suggestion" =>
         ((\E i \in DOMAIN commits : MentionsBreaking(commits[i])) =>
            suggestion.value.type = "major")

\* The record of a commit read by version-manager.js; its body is the
\* commit's body, or the raw message the format asks for.
IsRecordOf(record, c) ==
    /\ record.hash = c.hash
    /\ record.message = c.message
    /\ record.author = c.author
    /\ record.date = c.date
    /\ record.body \in {c.body, RawMessage(c)}

\* C24 as stated: reading the commits never fails and returns one record per
\* commit, in the order of the log, with the commit's hash, subject, author
\* and date and, in version-manager.js, its body; no commit gives no record.
Orig_C24_OneRecordPerCommit ==
    call.op \in {"VersionManager.getCommitsSinceLastTag",
                 "ReleaseManager.getCommitsSinceLastTag"} =>
      /\ call.outcome.status = "returned"
      /\ Len(call.outcome.value) = Len(call.arg)
      /\ \A i \in DOMAIN call.arg :
           IF call.op = "VersionManager.getCommitsSinceLastTag"
           THEN IsRecordOf(call.outcome.value[i], call.arg[i])
           ELSE call.outcome.value[i] =
                  [hash |-> Str(call.arg[i].hash),
                   message |-> Str(call.arg[i].message),
                   author |-> Str(call.arg[i].author),
                   date |-> Str(call.arg[i].date)]

\* C25 as stated: the semverIncrease of every entry that quickPatch or
\* interactiveVersion adds is the chosen bump type of the entry, whatever
\* version the release starts from.
Orig_C25_IncreaseEqualsType ==
    call.op = "addVersionToHistory" =>
      call.outcome.value.semverIncrease = call.outcome.value.type

\* The git add, commit or tag of the release has failed.
GitStepFailed ==
    /\ ReleaseScriptFlow
    /\ \E i \in DOMAIN proc.ran :
         proc.ran[i].step \in {"git add", "git commit", "git tag"}
           /\ ~proc.ran[i].ok

\* The files a release has written are in place: package.json has the new
\* version, CHANGELOG.md holds the entry of the release and, for
\* version-manager.js, the newest entry of the history is the release.
ReleaseFilesInPlace ==
    IF proc.script = "release"
    THEN /\ Prop(readJson(fsFiles, ReleaseManager_packagePath), "version")
              = Str(VersionString(proc.newVersion))
         /\ includes(fsFiles[ReleaseManager_changelogPath].content, proc.entry)
    ELSE /\ Prop(readJson(fsFiles, packagePath), "version")
              = Str(VersionString(proc.newVersion))
         /\ includes(fsFiles[changelogPath].content, proc.entry)
         /\ Prop(Prop(readJson(fsFiles, versionHistoryPath), "versions").v[1],
                 "version") = Str(VersionString(proc.newVersion))

SuccessMessages ==
    {"Release committed and tagged", "Release completed successfully!",
     "Quick release completed!", "Patch created successfully!",
     "Release created successfully!"}

\* C26: when the git add, commit or tag of a release has failed, the flow
\* has ended on that step with a message about the failure and without a
\* message of success, the push has not been started, and the written files
\* are kept: package.json has the new version, CHANGELOG.md the new section
\* and, for version-manager.js, .version-history.json the new entry.  (The
\* exit status is 1 in the interactive release of release.js only.)
Thm_C26_TagFailureKeepsFiles ==
    GitStepFailed =>
      /\ proc.pc = "exited"
      /\ ~proc.ran[Len(proc.ran)].ok
      /\ proc.ran[Len(proc.ran)].step \in {"git add", "git commit", "git tag"}
      /\ \E i \in DOMAIN proc.out :
           proc.out[i] \in FailureMessages
      /\ \A i \in DOMAIN proc.out : proc.out[i] \notin SuccessMessages
      /\ \A i \in DOMAIN proc.ran : proc.ran[i].step # "git push"
      /\ git.pushed = {}
      /\ ReleaseFilesInPlace
      /\ proc.exit = 1 <=> (proc.script = "release" /\ proc.command = "release")

\* The bump command has committed the release, its git tag has failed, and
\* the three written files are in place.
Wit_C26_TagFailedAfterCommit ==
    /\ GitStepFailed
    /\ proc.script = "version-manager" /\ proc.command = "bump"
    /\ proc.ran[Len(proc.ran)] = [step |-> "git tag", ok |-> FALSE]
    /\ git.commits = <<proc.newVersion>>
    /\ ReleaseFilesInPlace
    /\ proc.newVersion = <<1, 1, 0>>

\* The process has started the step.
Started(p, step) == \E i \in DOMAIN p.ran : p.ran[i].step = step

\* The step has succeeded before the i-th step of the process.
SucceededBefore(p, step, i) ==
    \E j \in 1 .. i - 1 : p.ran[j] = [step |-> step, ok |-> TRUE]

\* The push of release.js comes after the successful commit and tag.
PushAfterCommitAndTag ==
    /\ \A i \in DOMAIN proc.ran :
         proc.ran[i].step = "git push" =>
           /\ SucceededBefore(proc, "git commit", i)
           /\ SucceededBefore(proc, "git tag", i)
    /\ git.pushed # {} =>
         git.commits = <<proc.newVersion>> /\ git.tags = {proc.newVersion}

\* The user has declined the push: when the tag has been created the flow
\* has ended with the commit and the tag and without a push.
DeclinedPushStaysLocal ==
    Started(proc, "prompt pushToRemote") /\ ~proc.push =>
      /\ ~Started(proc, "git push")
      /\ git.pushed = {}
      /\ proc.ran[Len(proc.ran)] = [step |-> "git tag", ok |-> TRUE] =>
           /\ proc.pc = "exited" /\ proc.exit = 0
           /\ git.commits = <<proc.newVersion>>
           /\ git.tags = {proc.newVersion}

\* C29 as stated: in release.js a push is started only after the commit and
\* the tag of the release have succeeded and only when the user has been
\* asked about the push and has agreed; when the user has declined, the
\* flow ends with the commit and the tag and without a push.
Orig_C29_PushOnlyWhenAgreed ==
    proc.script = "release" =>
      /\ PushAfterCommitAndTag
      /\ Started(proc, "git push") =>
           Started(proc, "prompt pushToRemote") /\ proc.push
      /\ DeclinedPushStaysLocal

\* C29: in release.js a push is started only after the commit and the tag
\* of the release have succeeded.  The interactive release pushes only when
\* the user has been asked and has agreed, and when the user has declined
\* it ends with the commit and the tag and without a push; a quick release
\* never asks and starts the push whenever its tag has been created.
Thm_C29_PushAfterTagAskedInInteractive ==
    proc.script = "release" =>
      /\ PushAfterCommitAndTag
      /\ proc.command = "release" /\ Started(proc, "git push") =>
           Started(proc, "prompt pushToRemote") /\ proc.push
      /\ DeclinedPushStaysLocal
      /\ proc.command # "release" =>
           /\ ~Started(proc, "prompt pushToRemote")
           /\ proc.ran # <<>>
                /\ proc.ran[Len(proc.ran)] = [step |-> "git tag", ok |-> TRUE] =>
                  proc.pc = "git push"

\* A quick minor release has pushed the commit and the tag without having
\* asked.
Wit_C29_QuickReleasePushed ==
    /\ proc.script = "release" /\ proc.command = "minor"
    /\ proc.pc = "exited" /\ proc.exit = 0
    /\ git.pushed = {<<1, 1, 0>>}
    /\ git.tags = {<<1, 1, 0>>}
    /\ ~Started(proc, "prompt pushToRemote")

\* lastRelease is versions[0], and null when versions is empty.
LastReleaseIsNewest ==
    fsFiles[versionHistoryPath].exists =>
      Prop(HistoryOnDisk, "lastRelease") =
        (IF VersionsIn(fsFiles) = <<>> THEN Null ELSE VersionsIn(fsFiles)[1])

\* The step is a call of addVersionToHistory that has returned: its entry is
\* at index 0 and the earlier entries follow in their order; the entry's
\* commits is the number of commits passed and its commitDetails are the
\* first ten of them, or all when there are fewer, in their order.
EntryPlacedFirst ==
    call'.op = "addVersionToHistory" /\ call'.outcome.status = "returned" =>
      LET before == VersionsIn(fsFiles)
          after == VersionsIn(fsFiles')
          cs == call'.arg.commits
          kept == IF Len(cs) < 10 THEN Len(cs) ELSE 10
      IN  /\ after # <<>>
          /\ Tail(after) = before
          /\ Prop(after[1], "version") = Str(VersionString(call'.arg.version))
          /\ Prop(after[1], "commits") = Num(Len(cs))
          /\ Prop(after[1], "commitDetails") =
               Arr([i \in 1 .. kept |-> CommitObject(cs[i])])

\* C30: in every state of the history lastRelease is versions[0] and is null
\* exactly when versions is empty, and every call of addVersionToHistory
\* that returns places its entry at index 0 before the earlier entries,
\* with commits the full number of commits and commitDetails the first
\* min(10, commits) of them.
Thm_C30_NewestFirstAndLastRelease ==
    /\ [](LastReleaseIsNewest
            /\ (fsFiles[versionHistoryPath].exists =>
                  (Prop(HistoryOnDisk, "lastRelease") = Null
                     <=> VersionsIn(fsFiles) = <<>>)))
    /\ [][EntryPlacedFirst]_vars

\* A minor release with all the commits of the pool, more than ten, has been
\* added after a patch release with two commits: the history holds the ten
\* first commits of the new entry, and the patch release is second.
Wit_C30_TenOfTwelveCommitsKept ==
    /\ call.op = "addVersionToHistory" /\ call.outcome.status = "returned"
    /\ Len(call.arg.commits) > 10
    /\ Len(VersionsIn(fsFiles)) = 2
    /\ Prop(VersionsIn(fsFiles)[1], "commits") = Num(Len(call.arg.commits))
    /\ Len(Prop(VersionsIn(fsFiles)[1], "commitDetails").v) = 10
    /\ Prop(VersionsIn(fsFiles)[2], "type") = Str("patch")
    /\ Prop(HistoryOnDisk, "lastRelease") = VersionsIn(fsFiles)[1]

\* The version in package.json.
PackageVersionIn(files) ==
    ParseVersion(Prop(readJson(files, packagePath), "version").v)

\* The version of an entry of the history.
EntryVersion(entry) == ParseVersion(Prop(entry, "version").v)

\* semver.gt on <<major, minor, patch>>
VersionGreater(a, b) ==
    \/ a[1] > b[1]
    \/ a[1] = b[1] /\ a[2] > b[2]
    \/ a[1] = b[1] /\ a[2] = b[2] /\ a[3] > b[3]

\* C28 as stated: after every release through an instance the instance's
\* current version is the version in package.json, every entry of the
\* history has a greater version than the entry before it, and its
\* previousVersion is the version of the entry before it.
Orig_C28_InstanceFollowsReleases ==
    call.op \in {"quickPatch", "interactiveVersion"} =>
      /\ currentVersion = PackageVersionIn(fsFiles)
      /\ \A i \in 1 .. Len(VersionsIn(fsFiles)) - 1 :
           /\ VersionGreater(EntryVersion(VersionsIn(fsFiles)[i]),
                             EntryVersion(VersionsIn(fsFiles)[i + 1]))
           /\ Prop(VersionsIn(fsFiles)[i], "previousVersion") =
                Prop(VersionsIn(fsFiles)[i + 1], "version")

\* The versions an invocation has read.
SeenBy(i) == Prop(call[i].history, "versions").v

\* The entry of an invocation as the document holds it.
StoredEntry(i) ==
    JsonParse(JsonStringify(
      versionEntryOf(currentVersion, call[i].arg.version, call[i].arg.type,
                     call[i].arg.description, call[i].arg.commits)))

\* Both invocations have written the document.
BothWritten == \A i \in Invocations : call[i].pc = "written"

\* Both invocations have read the document before either has written it.
Overlapped == SeenBy(1) = SeenBy(2)

\* C27: when both invocations of addVersionToHistory have written and both
\* had read the document before either wrote it, the document holds what
\* they read and the entry of one of them only, and counts one release
\* more; when they did not overlap, the document holds what the first read,
\* the entry of the first and, before it, the entry of the second.
Thm_C27_LostUpdateWhenOverlapping ==
    BothWritten =>
      IF Overlapped
      THEN /\ \E i \in Invocations :
                VersionsIn(fsFiles) = <<StoredEntry(i)>> \o SeenBy(i)
           /\ Prop(HistoryOnDisk, "totalReleases") = Num(Len(SeenBy(1)) + 1)
      ELSE \E i, j \in Invocations :
             /\ i # j
             /\ SeenBy(j) = <<StoredEntry(i)>> \o SeenBy(i)
             /\ VersionsIn(fsFiles) = <<StoredEntry(j)>> \o SeenBy(j)

\* Both invocations have read a history of one release and have written:
\* the document holds two releases, the minor release of the second
\* invocation first, and the patch release of the first invocation is lost.
Wit_C27_PatchEntryLost ==
    /\ BothWritten
    /\ Overlapped
    /\ Len(SeenBy(1)) = 1
    /\ call[1].arg.type = Str("patch")
    /\ call[2].arg.type = Str("minor")
    /\ Len(VersionsIn(fsFiles)) = 2
    /\ VersionsIn(fsFiles)[1] = StoredEntry(2)
    /\ \A k \in DOMAIN VersionsIn(fsFiles) :
         VersionsIn(fsFiles)[k] # StoredEntry(1)

====
